---- MODULE Spec2Model ----
(***************************************************************************)
(* World grid model of the Backrooms engine (src/world.py): progressive    *)
(* wall damage, instant destruction, debris bookkeeping, the memoized      *)
(* wall/pillar queries and the collision queries that read the destroyed   *)
(* sets (src/collision.py), together with the notifications the world      *)
(* emits on the global event bus (src/events.py).                          *)
(*                                                                         *)
(* Health is a Python float.  It is modelled exactly as an integer number  *)
(* of twentieths, so 1.0 = 20, 0.6 = 12 and 0.25 = 5.  The                 *)
(* damages drawn are those for which IEEE-754 double subtraction gives     *)
(* the decimal result (see FloatExact), so the thresholds compare in the   *)
(* model exactly as they do in the program.                                *)
(***************************************************************************)
EXTENDS Integers, Sequences, FiniteSets, TLC

\* ------------------------------------------------------------------------
\* Program constants
\* ------------------------------------------------------------------------
PILLAR_SPACING == 400
PILLAR_SIZE == 80
WALL_THICKNESS == 20
WALL_HEIGHT == 400
CEILING_HEIGHT_MULTIPLIER == 1
HALLWAY_WIDTH == 100
ZONE_SIZE == 10000
MAX_DEBRIS == 12000

\* full health 1.0 in twentieths (world.py:308, default of get_wall_health)
FULL_HEALTH == 20
\* thresholds of hit_wall, 0.25 and 0.6, in twentieths
FRACTURED_AT == 5
CRACKED_AT == 12
\* has_wall_between: pre-existing damage below 0.2 destroys (ten-thousandths)
DECAY_DESTROYED_BELOW == 2000
\* has_pillar_at: probability_map[PILLAR_MODE], PILLAR_MODE = "normal"
PILLAR_PROBABILITY == 3000
\* get_doorway_type: roll < 0.3 hallway, roll < 0.5 doorway
HALLWAY_BELOW == 3000
DOORWAY_BELOW == 5000
\* debris counts of the bursts
IMPACT_CRACKED == 30
IMPACT_FRACTURED == 60
IMPACT_HIT == 20
DESTROY_BASE == 1200
DESTROY_MIN == 250

get_scaled_wall_height == WALL_HEIGHT * CEILING_HEIGHT_MULTIPLIER
get_scaled_floor_y == (-2) * CEILING_HEIGHT_MULTIPLIER

\* ------------------------------------------------------------------------
\* Bounds of the model
\* ------------------------------------------------------------------------
\* hits that would raise the recorded health above MaxHealth twentieths
\* are not explored (negative damage can raise health without limit)
MaxHealth == 25
\* number of debris bursts held in debris_pieces before update_debris runs
MaxBursts == 1

\* ------------------------------------------------------------------------
\* Keys
\* ------------------------------------------------------------------------
\* grid cells (px, pz) of the window the model covers
GridCells == {<<0, 0>>}

\* tuple(sorted([(x1, z1), (x2, z2)]))
PointLess(p, q) == p[1] < q[1] \/ (p[1] = q[1] /\ p[2] < q[2])
WallKeyOf(x1, z1, x2, z2) ==
    IF PointLess(<<x2, z2>>, <<x1, z1>>)
    THEN <<<<x2, z2>>, <<x1, z1>>>>
    ELSE <<<<x1, z1>>, <<x2, z2>>>>

HorizontalKey(c) == WallKeyOf(c[1], c[2], c[1] + PILLAR_SPACING, c[2])
VerticalKey(c) == WallKeyOf(c[1], c[2], c[1], c[2] + PILLAR_SPACING)
PillarKeyOf(c) == <<c[1] + (PILLAR_SPACING \div 2), c[2] + (PILLAR_SPACING \div 2)>>

WallKeys == {HorizontalKey(c) : c \in GridCells} \cup {VerticalKey(c) : c \in GridCells}
PillarKeys == {PillarKeyOf(c) : c \in GridCells}

\* damage arguments passed to hit_wall, in twentieths:
\* -0.25 (a "repair"), 0.25 (the default), 0.4, 1.0
Damages == {-5, 5, 8, 20}

None == -1

WallState == {"INTACT", "CRACKED", "FRACTURED", "BREAKING", "DESTROYED"}

Max(a, b) == IF a >= b THEN a ELSE b
Min(a, b) == IF a <= b THEN a ELSE b

\* ------------------------------------------------------------------------
\* Seeded pseudo-random draws
\* ------------------------------------------------------------------------
\* random.Random(s): the first random() and the following uniform(0.0, 0.5)
\* of CPython's generator for the integer seeds the model's keys and world
\* seeds produce, in ten-thousandths (floor), tabulated from the program.
RngTable ==
    (10697 :> <<3585, 2400>>) @@ (50163 :> <<2198, 2351>>) @@
    (53797 :> <<5745, 1410>>) @@ (61842 :> <<581, 3804>>) @@
    (579400 :> <<6182, 2127>>) @@ (699076 :> <<709, 2322>>) @@
    (988293 :> <<5881, 484>>) @@ (998266 :> <<2139, 705>>) @@
    (1428400 :> <<1582, 2476>>) @@ (1548076 :> <<5018, 2415>>) @@
    (1837293 :> <<2242, 4071>>) @@ (1847266 :> <<4316, 914>>) @@
    (1997200 :> <<92, 2552>>) @@ (2116876 :> <<3652, 3641>>) @@
    (2406093 :> <<1222, 624>>) @@ (2416066 :> <<7195, 3016>>) @@
    (2630800 :> <<2010, 830>>) @@ (2750476 :> <<8012, 3459>>) @@
    (3039693 :> <<608, 3104>>) @@ (3049666 :> <<7102, 4737>>) @@
    (3167600 :> <<7866, 2684>>) @@ (3287276 :> <<7584, 4518>>) @@
    (3576493 :> <<9061, 2414>>) @@ (3586466 :> <<3793, 3402>>) @@
    (80618 :> <<2287, 1064>>) @@ (639238 :> <<6035, 1576>>) @@
    (1488238 :> <<8306, 4482>>) @@ (2057038 :> <<8053, 3988>>) @@
    (2690638 :> <<3911, 4774>>) @@ (3227438 :> <<8486, 2686>>) @@
    (5853838 :> <<5494, 4577>>) @@ (6202893 :> <<3439, 1568>>) @@
    (14343838 :> <<3243, 2151>>) @@ (14692893 :> <<3561, 1143>>) @@
    (20031838 :> <<2961, 3277>>) @@ (20380893 :> <<8625, 990>>) @@
    (26367838 :> <<645, 3148>>) @@ (26716893 :> <<9236, 3969>>) @@
    (31735838 :> <<7619, 1929>>) @@ (32084893 :> <<646, 3846>>)

rng_random(s) == RngTable[s][1]
rng_uniform_half(s) == RngTable[s][2]

\* hash((px, pz, world_seed)) % 100000 of CPython 3.11 for the model's pillars
PillarHashTable ==
    (<<200, 200, 0>> :> 10697) @@ (<<200, 200, 12>> :> 61842) @@
    (<<200, 200, 41>> :> 50163) @@ (<<200, 200, 42>> :> 53797) @@
    (<<200, 200, 6>> :> 80618)

\* world seeds the model constructs worlds with
Seeds == {0, 41, 42}

\* ------------------------------------------------------------------------
\* Procedural zone model (src/procedural.py)
\* ------------------------------------------------------------------------
\* room_size, wall_chance and decay_chance (ten-thousandths) of the
\* archetypes, in the order of the ZONE_TYPES dict
ZONE_TYPES == <<
    [zone_type |-> "normal", room_size |-> 400, wall_chance |-> 2500, decay_chance |-> 2000],
    [zone_type |-> "dense", room_size |-> 400, wall_chance |-> 4000, decay_chance |-> 2000],
    [zone_type |-> "sparse", room_size |-> 400, wall_chance |-> 1000, decay_chance |-> 2000],
    [zone_type |-> "maze", room_size |-> 400, wall_chance |-> 6000, decay_chance |-> 2000],
    [zone_type |-> "open", room_size |-> 600, wall_chance |-> 500, decay_chance |-> 1500],
    [zone_type |-> "atrium", room_size |-> 2400, wall_chance |-> 200, decay_chance |-> 500],
    [zone_type |-> "coliseum", room_size |-> 4000, wall_chance |-> 0, decay_chance |-> 200],
    [zone_type |-> "courtyard", room_size |-> 3200, wall_chance |-> 500, decay_chance |-> 500],
    [zone_type |-> "skyscraper_base", room_size |-> 2000, wall_chance |-> 1500, decay_chance |-> 1000],
    [zone_type |-> "grand_hall", room_size |-> 2800, wall_chance |-> 800, decay_chance |-> 800],
    [zone_type |-> "cathedral", room_size |-> 3600, wall_chance |-> 1000, decay_chance |-> 500],
    [zone_type |-> "warehouse", room_size |-> 1600, wall_chance |-> 500, decay_chance |-> 1200] >>

\* 0x7fffffff
HASH_MASK == 2147483647

\* (a + b) & 0x7fffffff for a, b in 0..HASH_MASK, without leaving 32 bits
AddMask(a, b) == IF a > HASH_MASK - b THEN (a - (HASH_MASK - b)) - 1 ELSE a + b

\* (a * b) & 0x7fffffff for a >= 0 and b in 0..HASH_MASK
RECURSIVE MulMask(_, _)
MulMask(a, b) ==
    IF a = 0 THEN 0
    ELSE LET half == MulMask(a \div 2, b)
             dbl == AddMask(half, half)
         IN IF a % 2 = 1 THEN AddMask(dbl, b) ELSE dbl

get_zone_type(zone_x, zone_z, seed) ==
    LET hash_val == AddMask(AddMask(MulMask(zone_x, 73856093), MulMask(zone_z, 19349663)),
                            MulMask(seed, 83492791))
    IN (hash_val % Len(ZONE_TYPES)) + 1

get_zone_properties(zone_x, zone_z, seed) == ZONE_TYPES[get_zone_type(zone_x, zone_z, seed)]

\* World.get_zone_at for integer positions
get_zone_at(x, z) == <<x \div ZONE_SIZE, z \div ZONE_SIZE>>

\* ------------------------------------------------------------------------
\* State
\* ------------------------------------------------------------------------
VARIABLES
    world_seed,          \* World.world_seed
    zone_cache,          \* dict zone -> index in ZONE_TYPES of the properties held
    wall_cache,          \* dict wall key -> bool
    pillar_cache,        \* dict pillar key -> bool
    pre_damaged_walls,   \* dict wall key -> damage roll (ten-thousandths)
    destroyed_walls,     \* set of wall keys
    destroyed_pillars,   \* set of pillar keys
    wall_states,         \* dict wall key -> WallState
    wall_health,         \* dict wall key -> health (twentieths)
    wall_cracks,         \* the wall keys that have crack records
    debris_pieces,       \* list of debris, as the sizes of the bursts appended
    emitted,             \* events the last call handed to event_bus.emit
    observed,            \* per wall key, WALL_DESTROYED events a subscriber saw
    ret,                 \* what the last call returned ("None" when nothing)
    segments,            \* list the last _get_nearby_segments call returned
    call,                \* the last call: its name and arguments
    subscribers,         \* EventBus._subscribers: event type -> list of handlers
    bus_queue,           \* EventBus._queue
    bus_processing,      \* EventBus._processing
    delivered,           \* events process_queue has handed to emit, in order
    queued_log,          \* events handed to EventBus.queue, in order
    invoked,             \* handler invocations of the last call that used the bus
    nested,              \* process_queue calls handlers made during that call
    player_x,            \* Player.x (half units)
    player_z,            \* Player.z (half units)
    is_moving,           \* Player.is_moving
    is_running,          \* Player.is_running
    was_colliding,       \* Player.was_colliding
    signalled,           \* intensities (hundredths) the last update passed to
                         \* collision_callback
    resolved,            \* collided flag resolve_collision returned to the last
                         \* update ("None" when update did not call it)
    contact_signals,     \* callback invocations in the current run of
                         \* consecutive frames whose resolve_collision collided
    returned_pos,        \* (final_x, final_z) the last resolve_collision call
                         \* returned, in half units; <<>> when there is none
    particles,           \* World.debris_pieces as a list of Debris objects
    spawned,             \* number of Debris objects constructed so far
    spawned_rubble,      \* World._spawned_rubble
    drawn,               \* wall keys the last render pass drew as solid geometry
    seen                 \* what the getters of the world returned inside the
                         \* handlers the last damage call notified

vars == <<world_seed, zone_cache, wall_cache, pillar_cache, pre_damaged_walls,
          destroyed_walls, destroyed_pillars, wall_states, wall_health,
          wall_cracks, debris_pieces, emitted, observed, ret, segments, call,
          subscribers, bus_queue, bus_processing, delivered, queued_log,
          invoked, nested,
          player_x, player_z, is_moving, is_running, was_colliding, signalled,
          resolved, contact_signals, returned_pos, particles, spawned,
          spawned_rubble, drawn, seen>>

\* the event bus and the log of what it did
bus_vars == <<subscribers, bus_queue, bus_processing, delivered, queued_log,
              invoked, nested>>

\* the player
player_vars == <<player_x, player_z, is_moving, is_running, was_colliding,
                 signalled, resolved, contact_signals>>

\* what the calls made directly on the collision system leave behind
collision_vars == <<returned_pos>>

\* the debris list particle by particle
particle_vars == <<particles, spawned>>

\* what the renderer keeps and leaves in the world
render_vars == <<spawned_rubble, drawn>>

\* what the listeners of the damage events read back from the world
notify_vars == <<seen>>

\* the state a damage call never touches
quiet_vars == <<collision_vars, particle_vars, render_vars>>

\* the state outside the world, the bus and the player
other_vars == <<quiet_vars, notify_vars>>

\* the world state proper (everything but the record of the last call)
world_vars == <<world_seed, zone_cache, wall_cache, pillar_cache, pre_damaged_walls,
                destroyed_walls, destroyed_pillars, wall_states, wall_health,
                wall_cracks, debris_pieces>>

\* Python dicts are functions whose domain is the set of keys present
EmptyDict == [k \in {} |-> 0]
Put(d, k, v) == [x \in (DOMAIN d) \cup {k} |-> IF x = k THEN v ELSE d[x]]
Get(d, k, default) == IF k \in DOMAIN d THEN d[k] ELSE default

Sum2(a, b) == a + b
RECURSIVE SeqSum(_)
SeqSum(s) == IF s = <<>> THEN 0 ELSE Head(s) + SeqSum(Tail(s))

\* len(self.debris_pieces)
DebrisCount == SeqSum(debris_pieces)

\* ------------------------------------------------------------------------
\* Readers (src/world.py)
\* ------------------------------------------------------------------------
is_wall_destroyed(wall_key) == wall_key \in destroyed_walls
is_pillar_destroyed(pillar_key) == pillar_key \in destroyed_pillars

get_wall_damage(wall_key) == Get(pre_damaged_walls, wall_key, 10000)

get_wall_state(wall_key) ==
    IF wall_key \in destroyed_walls THEN "DESTROYED"
    ELSE Get(wall_states, wall_key, "INTACT")

get_wall_health(wall_key) ==
    IF wall_key \in destroyed_walls THEN 0
    ELSE Get(wall_health, wall_key, FULL_HEALTH)

\* (x1 + x2) / 2, (floor_y + h) / 2, (z1 + z2) / 2: every sum is even here
get_wall_center(wall_key) ==
    <<(wall_key[1][1] + wall_key[2][1]) \div 2,
      (get_scaled_floor_y + get_scaled_wall_height) \div 2,
      (wall_key[1][2] + wall_key[2][2]) \div 2>>

\* center computed by destroy_pillar for its event
pillar_center(pillar_key) ==
    <<(pillar_key[1] + (pillar_key[1] + PILLAR_SIZE)) \div 2,
      (get_scaled_floor_y + get_scaled_wall_height) \div 2,
      (pillar_key[2] + (pillar_key[2] + PILLAR_SIZE)) \div 2>>

\* Event(event_type, **data); a field the event does not carry reads as None
Event(type, key, position, health) ==
    [type |-> type, key |-> key, position |-> position, health |-> health]

\* num_particles of _destroy_wall_internal / destroy_pillar for n destroyed:
\* max(250, int(1200 * (1.0 / (1.0 + n / 20)))) = max(250, 24000 div (20 + n))
num_particles(n) == Max(DESTROY_MIN, (DESTROY_BASE * 20) \div (20 + n))

\* a hit_wall whose 0.6 threshold is exclusive
state_of_health_exclusive(new_health) ==
    IF new_health <= 0 THEN "DESTROYED"
    ELSE IF new_health <= FRACTURED_AT THEN "FRACTURED"
    ELSE IF new_health < CRACKED_AT THEN "CRACKED"
    ELSE "INTACT"

\* the state hit_wall derives from the new health
state_of_health(new_health) ==
    IF new_health <= 0 THEN "DESTROYED"
    ELSE IF new_health <= FRACTURED_AT THEN "FRACTURED"
    ELSE IF new_health <= CRACKED_AT THEN "CRACKED"
    ELSE "INTACT"

\* self.wall_health[wall_key] = max(0.0, old_health - damage)
apply_damage(old_health, damage) == Max(0, old_health - damage)

\* hit_wall calls _add_crack when the new state is cracked or fractured; the
\* crack records are random draws, the model keeps which walls have some
adds_crack(new_state) == new_state \in {"CRACKED", "FRACTURED"}

\* the debris burst hit_wall spawns: (old_state, new_state, destroyed after)
hit_burst(old_state, new_state, n_destroyed) ==
    IF new_state # old_state
    THEN IF new_state = "CRACKED" THEN IMPACT_CRACKED
         ELSE IF new_state = "FRACTURED" THEN IMPACT_FRACTURED
         ELSE IF new_state = "DESTROYED" THEN num_particles(n_destroyed)
         ELSE 0
    ELSE IF old_state # "INTACT" THEN IMPACT_HIT
    ELSE 0

\* a hit_wall that stays silent when the state does not change
hit_events_silent(wall_key, old_state, new_state, new_health) ==
    IF new_state # old_state
    THEN IF new_state = "CRACKED"
         THEN <<Event("WALL_CRACKED", wall_key, get_wall_center(wall_key), new_health)>>
         ELSE IF new_state = "FRACTURED"
         THEN <<Event("WALL_FRACTURED", wall_key, get_wall_center(wall_key), new_health)>>
         ELSE IF new_state = "DESTROYED"
         THEN <<Event("WALL_DESTROYED", wall_key, get_wall_center(wall_key), None)>>
         ELSE <<>>
    ELSE <<>>

\* the event hit_wall emits, as a list of zero or one events
hit_events(wall_key, old_state, new_state, new_health) ==
    IF new_state # old_state
    THEN IF new_state = "CRACKED"
         THEN <<Event("WALL_CRACKED", wall_key, get_wall_center(wall_key), new_health)>>
         ELSE IF new_state = "FRACTURED"
         THEN <<Event("WALL_FRACTURED", wall_key, get_wall_center(wall_key), new_health)>>
         ELSE IF new_state = "DESTROYED"
         THEN <<Event("WALL_DESTROYED", wall_key, get_wall_center(wall_key), None)>>
         ELSE <<>>
    ELSE IF old_state # "INTACT"
    THEN <<Event("WALL_HIT", wall_key, get_wall_center(wall_key), new_health)>>
    ELSE <<>>

\* a hit_wall that reports every change of state as a destruction
hit_returns_on_change(old_state, new_state) == new_state # old_state

\* hit_wall returns True on the transition into DESTROYED only
hit_returns(old_state, new_state) == new_state # old_state /\ new_state = "DESTROYED"

\* the early returns on keys that are already destroyed
hit_wall_skips(wall_key, destroyed) == wall_key \in destroyed

\* a destroy_wall without its early return
destroy_wall_never_skips(wall_key, destroyed) == FALSE

destroy_wall_skips(wall_key, destroyed) == wall_key \in destroyed

\* a destroy_pillar without its early return
destroy_pillar_never_skips(pillar_key, destroyed) == FALSE

destroy_pillar_skips(pillar_key, destroyed) == pillar_key \in destroyed

\* a scan that does not look at the destroyed set
wall_solid_always(wall_key, destroyed) == TRUE

\* the collision scans leave out a wall whose key is in the destroyed set
wall_solid(wall_key, destroyed) == wall_key \notin destroyed

Append0(s, n) == IF n > 0 THEN Append(s, n) ELSE s

\* a subscriber of WALL_DESTROYED counting what it is handed
Observe(events) ==
    [k \in WallKeys |->
        observed[k] + Cardinality({i \in 1..Len(events) :
            events[i].type = "WALL_DESTROYED" /\ events[i].key = k})]

\* double arithmetic agrees with the decimal arithmetic of the model when
\* health and damage are multiples of 0.25, for 1.0 - 0.4, and when a
\* multiple of 0.25 is subtracted from a health that only moves down
FloatExact(old_health, damage) ==
    \/ old_health % 5 = 0 /\ damage % 5 = 0
    \/ old_health = FULL_HEALTH /\ damage = 8
    \/ old_health % 5 # 0 /\ damage > 0 /\ damage % 5 = 0

\* ------------------------------------------------------------------------
\* Event bus (src/events.py)
\* ------------------------------------------------------------------------
\* the members of the EventType enum
EventTypes ==
    {"WALL_HIT", "WALL_CRACKED", "WALL_FRACTURED", "WALL_BREAKING", "WALL_DESTROYED",
     "PILLAR_HIT", "PILLAR_DESTROYED", "DEBRIS_IMPACT", "DEBRIS_SETTLED",
     "PLAYER_STEP", "PLAYER_LAND", "FLICKER"}

\* events ever handed to EventBus.queue; further queue calls are not explored
MaxQueued == 3

\* listeners, by what their body does when called with an event:
\*   "listener"  returns
\*   "failing"   raises an Exception
\*   "chained"   calls event_bus.queue(EventType.FLICKER)
\*   "reentrant" calls event_bus.process_queue()
Handlers == {"listener", "failing", "chained", "reentrant"}

handler_raises(h) == h = "failing"

\* EventBus() ; defaultdict(list) reads as the empty list for every type
BusConstructed ==
    /\ subscribers = [t \in EventTypes |-> <<>>]
    /\ bus_queue = <<>>
    /\ bus_processing = FALSE
    /\ delivered = <<>>
    /\ queued_log = <<>>
    /\ invoked = <<>>
    /\ nested = <<>>

\* the bus as a call finds it, with the logs of the call empty
BusState ==
    [queue |-> bus_queue, processing |-> bus_processing, delivered |-> delivered,
     queued |-> queued_log, invoked |-> <<>>, nested |-> <<>>, propagated |-> FALSE]

\* EventBus.subscribe(event_type, handler)
subscribe(subs, event_type, handler) ==
    IF \E i \in DOMAIN subs[event_type] : subs[event_type][i] = handler
    THEN subs
    ELSE [subs EXCEPT ![event_type] = Append(@, handler)]

\* EventBus.queue(event_type, **data); the data of the n-th queued event is n
queue(b, event_type) ==
    LET item == [type |-> event_type, data |-> Len(b.queued) + 1]
    IN [b EXCEPT !.queue = Append(@, item), !.queued = Append(@, item)]

\* a pop that takes the newest item
queue_pop_last(q) == [item |-> q[Len(q)], rest |-> SubSeq(q, 1, Len(q) - 1)]

\* self._queue.pop(0)
queue_pop(q) == [item |-> Head(q), rest |-> Tail(q)]

\* a process_queue without its guard
process_queue_never_skips(processing) == FALSE

\* if self._processing: return
process_queue_skips(processing) == processing

RECURSIVE run_handlers(_, _, _, _)
RECURSIVE emit(_, _, _)
RECURSIVE flush(_, _)
RECURSIVE process_queue(_, _)

\* handler(event) inside the try of emit: the call is logged, then the body
\* of the handler runs against the bus
run_handler(subs, b, h, event_type) ==
    LET called == [b EXCEPT !.invoked =
                       Append(@, [handler |-> h, type |-> event_type,
                                  raised |-> handler_raises(h)])]
    IN IF h = "chained"
       THEN IF Len(called.queued) < MaxQueued THEN queue(called, "FLICKER") ELSE called
       ELSE IF h = "reentrant"
       THEN LET after == process_queue(subs, called)
            IN [after EXCEPT !.nested =
                   Append(@, [processing |-> called.processing,
                              queue_before |-> called.queue,
                              queue_after |-> after.queue,
                              delivered_before |-> called.delivered,
                              delivered_after |-> after.delivered])]
       ELSE called

\* for handler in handlers: try: handler(event) except Exception: print(...)
run_handlers(subs, b, handlers, event_type) ==
    IF handlers = <<>> THEN b
    ELSE run_handlers(subs, run_handler(subs, b, Head(handlers), event_type),
                      Tail(handlers), event_type)

\* an emit without try/except: the first exception leaves the loop and
\* reaches the caller
emit_unguarded(subs, b, event_type) ==
    LET handlers == subs[event_type]
        failing == {i \in DOMAIN handlers : handler_raises(handlers[i])}
        last == IF failing = {} THEN Len(handlers)
                ELSE CHOOSE i \in failing : \A j \in failing : i <= j
        r == run_handlers(subs, b, SubSeq(handlers, 1, last), event_type)
    IN [r EXCEPT !.propagated = @ \/ failing # {}]

\* EventBus.emit(event_type, **data): every subscribed handler is called in
\* subscription order; an Exception a handler raises is caught and printed
emit(subs, b, event_type) == run_handlers(subs, b, subs[event_type], event_type)

\* while self._queue: event_type, data = self._queue.pop(0); self.emit(...)
flush(subs, b) ==
    IF b.queue = <<>> THEN b
    ELSE LET popped == queue_pop(b.queue)
             taken == [b EXCEPT !.queue = popped.rest,
                                !.delivered = Append(@, popped.item)]
         IN flush(subs, emit(subs, taken, popped.item.type))

\* EventBus.process_queue()
process_queue(subs, b) ==
    IF process_queue_skips(b.processing) THEN b
    ELSE [flush(subs, [b EXCEPT !.processing = TRUE]) EXCEPT !.processing = FALSE]

\* the event_bus.emit calls of a world operation, given the events it emits
dispatch(events) ==
    IF events = <<>> THEN BusState ELSE emit(subscribers, BusState, events[1].type)

\* writes the bus a call left behind
BusCommit(b) ==
    /\ bus_queue' = b.queue
    /\ bus_processing' = b.processing
    /\ delivered' = b.delivered
    /\ queued_log' = b.queued
    /\ invoked' = b.invoked
    /\ nested' = b.nested

\* what a call returns to its caller: the exception that left emit, if one
\* did, else its return value
Returned(b, value) == IF b.propagated THEN "Exception" ELSE value

\* the dicts and sets of the world that its damage getters read
Written(destroyed, dpillars, states, health) ==
    [destroyed_walls |-> destroyed, destroyed_pillars |-> dpillars,
     wall_states |-> states, wall_health |-> health]

\* World.get_wall_state(wall_key) on the world w
wall_state_in(w, wall_key) ==
    IF wall_key \in w.destroyed_walls THEN "DESTROYED"
    ELSE Get(w.wall_states, wall_key, "INTACT")

\* World.get_wall_health(wall_key) on the world w
wall_health_in(w, wall_key) ==
    IF wall_key \in w.destroyed_walls THEN 0
    ELSE Get(w.wall_health, wall_key, FULL_HEALTH)

\* a damage call that notifies its listeners first and writes afterwards
world_at_emit_unwritten(before, after) == before

\* the world as it stands when a damage call reaches its event_bus.emit:
\* the assignments to wall_health and wall_states, _destroy_wall_internal
\* and destroyed_pillars.add all come earlier in the body than the emit
world_at_emit(before, after) == after

\* what the handlers emit calls read back from the world w about the key of
\* the event: nothing is recorded when no handler is subscribed
handler_reads(subs, events, w) ==
    IF events = <<>> THEN <<>>
    ELSE IF subs[events[1].type] = <<>> THEN <<>>
    ELSE LET e == events[1]
         IN IF e.type = "PILLAR_DESTROYED"
            THEN <<[event |-> e, handlers |-> Len(subs[e.type]),
                    destroyed |-> e.key \in w.destroyed_pillars,
                    state |-> None, health |-> None]>>
            ELSE <<[event |-> e, handlers |-> Len(subs[e.type]),
                    destroyed |-> e.key \in w.destroyed_walls,
                    state |-> wall_state_in(w, e.key),
                    health |-> wall_health_in(w, e.key)]>>

\* the world before a damage call
WrittenBefore == Written(destroyed_walls, destroyed_pillars, wall_states, wall_health)

\* ------------------------------------------------------------------------
\* Player (src/player.py)
\* ------------------------------------------------------------------------
\* Player(): x = 200, z = 200, nothing moving, was_colliding = False.
\* Positions are in half units, so that radius + skin = 15.5 is a whole number.
PlayerConstructed ==
    /\ player_x = 400
    /\ player_z = 400
    /\ is_moving = FALSE
    /\ is_running = FALSE
    /\ was_colliding = FALSE
    /\ signalled = <<>>
    /\ resolved = "None"
    /\ contact_signals = 0

\* no call has been made on the collision system
OtherConstructed ==
    /\ returned_pos = <<>>
    /\ particles = <<>>
    /\ spawned = 0
    /\ spawned_rubble = {}
    /\ drawn = {}
    /\ seen = <<>>

\* ------------------------------------------------------------------------
\* Operations
\* ------------------------------------------------------------------------
\* World(world_seed) for a seed of the set seeds
Constructed(seeds) ==
    /\ world_seed \in seeds
    /\ zone_cache = EmptyDict
    /\ wall_cache = EmptyDict
    /\ pillar_cache = EmptyDict
    /\ pre_damaged_walls = EmptyDict
    /\ destroyed_walls = {}
    /\ destroyed_pillars = {}
    /\ wall_states = EmptyDict
    /\ wall_health = EmptyDict
    /\ wall_cracks = {}
    /\ debris_pieces = <<>>
    /\ emitted = <<>>
    /\ observed = [k \in WallKeys |-> 0]
    /\ ret = "None"
    /\ segments = <<>>
    /\ call = [op |-> "init", args |-> <<>>]
    /\ BusConstructed
    /\ PlayerConstructed
    /\ OtherConstructed

Init == Constructed(Seeds)

\* World.hit_wall(wall_key, damage)
hit_wall(wall_key, damage) ==
    /\ call' = [op |-> "hit_wall", args |-> <<wall_key, damage>>]
    /\ segments' = <<>>
    /\ UNCHANGED <<subscribers, player_vars, quiet_vars>>
    /\ IF hit_wall_skips(wall_key, destroyed_walls)
       THEN /\ ret' = "False"
            /\ emitted' = <<>>
            /\ seen' = <<>>
            /\ UNCHANGED <<world_vars, observed, bus_vars>>
       ELSE LET old_state == Get(wall_states, wall_key, "INTACT")
                old_health == Get(wall_health, wall_key, FULL_HEALTH)
                new_health == apply_damage(old_health, damage)
                new_state == state_of_health(new_health)
                destroys == new_state # old_state /\ new_state = "DESTROYED"
                returns == hit_returns(old_state, new_state)
                destroyed_after == IF destroys THEN destroyed_walls \cup {wall_key}
                                   ELSE destroyed_walls
                burst == hit_burst(old_state, new_state, Cardinality(destroyed_after))
                events == hit_events(wall_key, old_state, new_state, new_health)
            IN /\ FloatExact(old_health, damage)
               /\ new_health <= MaxHealth
               /\ burst > 0 => Len(debris_pieces) < MaxBursts
               /\ wall_health' = Put(wall_health, wall_key, new_health)
               /\ wall_states' = Put(wall_states, wall_key, new_state)
               /\ wall_cracks' = IF adds_crack(new_state)
                                 THEN wall_cracks \cup {wall_key}
                                 ELSE wall_cracks
               /\ destroyed_walls' = destroyed_after
               /\ debris_pieces' = Append0(debris_pieces, burst)
               /\ emitted' = events
               /\ observed' = Observe(events)
               /\ seen' = handler_reads(subscribers, events,
                              world_at_emit(WrittenBefore,
                                  Written(destroyed_after, destroyed_pillars,
                                          Put(wall_states, wall_key, new_state),
                                          Put(wall_health, wall_key, new_health))))
               /\ BusCommit(dispatch(events))
               /\ ret' = Returned(dispatch(events), IF returns THEN "True" ELSE "False")
               /\ UNCHANGED <<world_seed, zone_cache, wall_cache, pillar_cache,
                              pre_damaged_walls, destroyed_pillars>>

\* World.destroy_wall(wall_key), with _destroy_wall_internal
destroy_wall(wall_key) ==
    /\ call' = [op |-> "destroy_wall", args |-> <<wall_key>>]
    /\ segments' = <<>>
    /\ UNCHANGED <<subscribers, player_vars, quiet_vars>>
    /\ IF destroy_wall_skips(wall_key, destroyed_walls)
       THEN /\ emitted' = <<>>
            /\ seen' = <<>>
            /\ ret' = "None"
            /\ UNCHANGED <<world_vars, observed, bus_vars>>
       ELSE LET events == <<Event("WALL_DESTROYED", wall_key, get_wall_center(wall_key), None)>>
            IN /\ Len(debris_pieces) < MaxBursts
               /\ destroyed_walls' = destroyed_walls \cup {wall_key}
               /\ wall_states' = Put(wall_states, wall_key, "DESTROYED")
               /\ wall_health' = Put(wall_health, wall_key, 0)
               /\ debris_pieces' = Append(debris_pieces,
                                          num_particles(Cardinality(destroyed_walls \cup {wall_key})))
               /\ emitted' = events
               /\ observed' = Observe(events)
               /\ seen' = handler_reads(subscribers, events,
                              world_at_emit(WrittenBefore,
                                  Written(destroyed_walls \cup {wall_key}, destroyed_pillars,
                                          Put(wall_states, wall_key, "DESTROYED"),
                                          Put(wall_health, wall_key, 0))))
               /\ BusCommit(dispatch(events))
               /\ ret' = Returned(dispatch(events), "None")
               /\ UNCHANGED <<world_seed, zone_cache, wall_cache, pillar_cache,
                              pre_damaged_walls, destroyed_pillars, wall_cracks>>

\* World.destroy_pillar(pillar_key)
destroy_pillar(pillar_key) ==
    /\ call' = [op |-> "destroy_pillar", args |-> <<pillar_key>>]
    /\ segments' = <<>>
    /\ UNCHANGED <<subscribers, player_vars, quiet_vars>>
    /\ IF destroy_pillar_skips(pillar_key, destroyed_pillars)
       THEN /\ emitted' = <<>>
            /\ seen' = <<>>
            /\ ret' = "None"
            /\ UNCHANGED <<world_vars, observed, bus_vars>>
       ELSE /\ Len(debris_pieces) < MaxBursts
            /\ destroyed_pillars' = destroyed_pillars \cup {pillar_key}
            /\ debris_pieces' = Append(debris_pieces,
                                       num_particles(Cardinality(destroyed_pillars \cup {pillar_key})))
            /\ emitted' = <<Event("PILLAR_DESTROYED", pillar_key, pillar_center(pillar_key), None)>>
            /\ seen' = handler_reads(subscribers,
                            <<Event("PILLAR_DESTROYED", pillar_key,
                                    pillar_center(pillar_key), None)>>,
                            world_at_emit(WrittenBefore,
                                Written(destroyed_walls,
                                        destroyed_pillars \cup {pillar_key},
                                        wall_states, wall_health)))
            /\ BusCommit(dispatch(<<Event("PILLAR_DESTROYED", pillar_key,
                                          pillar_center(pillar_key), None)>>))
            /\ ret' = Returned(dispatch(<<Event("PILLAR_DESTROYED", pillar_key,
                                              pillar_center(pillar_key), None)>>), "None")
            /\ UNCHANGED <<world_seed, zone_cache, wall_cache, pillar_cache,
                           pre_damaged_walls, destroyed_walls, wall_states,
                           wall_health, wall_cracks, observed>>

\* self.debris_pieces[:MAX_DEBRIS] on a list given by its bursts: the
\* newest particles go first, the last burst is cut where the cap falls
RECURSIVE trim_newest(_, _)
trim_newest(pieces, cap) ==
    IF SeqSum(pieces) <= cap THEN pieces
    ELSE LET front == SubSeq(pieces, 1, Len(pieces) - 1)
         IN IF SeqSum(front) >= cap THEN trim_newest(front, cap)
            ELSE Append(front, cap - SeqSum(front))

\* self.debris_pieces[-MAX_DEBRIS:] on a list given by its bursts: the
\* oldest particles go first, the front burst is cut where the cap falls
RECURSIVE trim_oldest(_, _)
trim_oldest(pieces, cap) ==
    IF SeqSum(pieces) <= cap THEN pieces
    ELSE IF SeqSum(Tail(pieces)) >= cap THEN trim_oldest(Tail(pieces), cap)
    ELSE <<cap - SeqSum(Tail(pieces))>> \o Tail(pieces)

\* [d for d in self.debris_pieces if d.active] where the bursts at the
\* positions in keep are still active
RECURSIVE keep_active(_, _, _)
keep_active(pieces, keep, i) ==
    IF i > Len(pieces) THEN <<>>
    ELSE (IF i \in keep THEN <<pieces[i]>> ELSE <<>>) \o keep_active(pieces, keep, i + 1)

\* World.update_debris(dt, player_x, player_z): ageing and distance culling
\* deactivate particles; a burst is aged or culled as a whole here
update_debris(keep) ==
    /\ call' = [op |-> "update_debris", args |-> <<keep>>]
    /\ segments' = <<>>
    /\ ret' = "None"
    /\ emitted' = <<>>
    /\ debris_pieces' = trim_oldest(keep_active(debris_pieces, keep, 1), MAX_DEBRIS)
    /\ UNCHANGED <<bus_vars, player_vars, other_vars>>
    /\ UNCHANGED <<world_seed, zone_cache, wall_cache, pillar_cache, pre_damaged_walls,
                   destroyed_walls, destroyed_pillars, wall_states, wall_health,
                   wall_cracks, observed>>

\* ------------------------------------------------------------------------
\* Memoized queries (src/world.py); they act on the part of the world they
\* read and write, so that the collision scans can chain them
\* ------------------------------------------------------------------------
QueryState ==
    [zone_cache |-> zone_cache, wall_cache |-> wall_cache,
     pillar_cache |-> pillar_cache, pre_damaged_walls |-> pre_damaged_walls,
     destroyed_walls |-> destroyed_walls]

\* World.get_zone_properties: memoizes the properties of the zone
with_zone(w, zone, seed) ==
    IF zone \in DOMAIN w.zone_cache THEN w
    ELSE [w EXCEPT !.zone_cache = Put(@, zone, get_zone_type(zone[1], zone[2], seed))]

\* the properties World.get_zone_properties returns for a memoized zone
zone_properties(w, zone) == ZONE_TYPES[w.zone_cache[zone]]

\* zone of the point ((x1 + x2) / 2, (z1 + z2) / 2)
zone_of_center(x1, z1, x2, z2) == <<(x1 + x2) \div (2 * ZONE_SIZE), (z1 + z2) \div (2 * ZONE_SIZE)>>

room_size_of(w, zone) == zone_properties(w, zone).room_size

Abs(a) == IF a < 0 THEN -a ELSE a

\* a grid validation that accepts a wall only with its points in order
wall_on_grid_ordered(x1, z1, x2, z2, room_size) ==
    IF z1 = z2
    THEN z1 % room_size = 0 /\ x2 - x1 = room_size
    ELSE IF x1 = x2
    THEN x1 % room_size = 0 /\ z2 - z1 = room_size
    ELSE FALSE

\* the grid validation of has_wall_between for integer coordinates:
\* axis-aligned, on the zone's grid, spanning one room size (tolerance 1.0)
wall_on_grid(x1, z1, x2, z2, room_size) ==
    IF z1 = z2
    THEN z1 % room_size = 0 /\ ~(Abs(Abs(x2 - x1) - room_size) > 1)
    ELSE IF x1 = x2
    THEN x1 % room_size = 0 /\ ~(Abs(Abs(z2 - z1) - room_size) > 1)
    ELSE FALSE

decay_seed(x1, z1, x2, z2, seed) == x1 * 7919 + z1 * 6577 + x2 * 4993 + z2 * 3571 + seed * 9973

\* World.has_wall_between(x1, z1, x2, z2) on w: the result and the world after
has_wall_between(w, x1, z1, x2, z2, seed) ==
    LET key == WallKeyOf(x1, z1, x2, z2)
        zone == zone_of_center(x1, z1, x2, z2)
        wz == with_zone(w, zone, seed)
        props == zone_properties(wz, zone)
        dseed == decay_seed(x1, z1, x2, z2, seed)
        decays == rng_random(dseed) < props.decay_chance
        damage == rng_uniform_half(dseed)
    IN IF key \in DOMAIN w.wall_cache
       THEN [result |-> w.wall_cache[key], w |-> w]
       ELSE IF ~wall_on_grid(x1, z1, x2, z2, props.room_size)
       THEN [result |-> FALSE, w |-> [wz EXCEPT !.wall_cache = Put(@, key, FALSE)]]
       ELSE [result |-> TRUE,
             w |-> [wz EXCEPT
                 !.pre_damaged_walls =
                     IF key \notin DOMAIN w.pre_damaged_walls /\ decays
                     THEN Put(@, key, damage) ELSE @,
                 !.destroyed_walls =
                     IF key \notin DOMAIN w.pre_damaged_walls /\ decays
                        /\ damage < DECAY_DESTROYED_BELOW
                     THEN @ \cup {key} ELSE @,
                 !.wall_cache = Put(@, key, TRUE)]]

\* World.has_pillar_at(px, pz) on w, PILLAR_MODE = "normal"
has_pillar_at(w, px, pz, seed) ==
    LET key == <<px, pz>>
        offset == PILLAR_SPACING \div 2
        on_grid == px % PILLAR_SPACING = offset /\ pz % PILLAR_SPACING = offset
        has_pillar == on_grid /\ rng_random(PillarHashTable[<<px, pz, seed>>]) < PILLAR_PROBABILITY
    IN IF key \in DOMAIN w.pillar_cache
       THEN [result |-> w.pillar_cache[key], w |-> w]
       ELSE [result |-> has_pillar, w |-> [w EXCEPT !.pillar_cache = Put(@, key, has_pillar)]]

\* World.get_doorway_type(x1, z1, x2, z2)
get_doorway_type(x1, z1, x2, z2, seed) ==
    LET door_seed == IF z1 = z2
                     THEN z1 * 3571 + ((x1 + x2) \div 2) * 2897 + seed * 9973
                     ELSE x1 * 3571 + ((z1 + z2) \div 2) * 2897 + seed * 9973
        roll == rng_random(door_seed)
    IN IF roll < HALLWAY_BELOW THEN "hallway"
       ELSE IF roll < DOORWAY_BELOW THEN "doorway"
       ELSE "None"

opening_width(opening_type) ==
    IF opening_type = "hallway" THEN HALLWAY_WIDTH
    ELSE IF opening_type = "doorway" THEN 60
    ELSE 0

\* the grid cells of the model, in the order the scans visit them
GridCellSeq == <<<<0, 0>>>>

\* the cells the nested range() loops of a scan around (x, z) visit
cell_in_range(c, x, z, check_range) ==
    /\ ((x - check_range) \div PILLAR_SPACING) * PILLAR_SPACING <= c[1]
    /\ c[1] <= ((x + check_range) \div PILLAR_SPACING) * PILLAR_SPACING
    /\ ((z - check_range) \div PILLAR_SPACING) * PILLAR_SPACING <= c[2]
    /\ c[2] <= ((z + check_range) \div PILLAR_SPACING) * PILLAR_SPACING

\* a wall given as two segments on its centerline (half_thick = 0)
wall_segments_centerline(c, horizontal, seed) ==
    LET px == c[1]
        pz == c[2]
        ow == IF horizontal
              THEN opening_width(get_doorway_type(px, pz, px + PILLAR_SPACING, pz, seed))
              ELSE opening_width(get_doorway_type(px, pz, px, pz + PILLAR_SPACING, seed))
        a == IF horizontal THEN px ELSE pz
        b == a + PILLAR_SPACING
        opening_start == a + (PILLAR_SPACING - ow) \div 2
        opening_end == opening_start + ow
        line == IF horizontal THEN pz ELSE px
        along(s, e) == IF horizontal THEN <<s, line, e, line>> ELSE <<line, s, line, e>>
    IN IF ow > 0
       THEN <<along(a, opening_start), along(a, opening_start),
              along(opening_end, b), along(opening_end, b)>>
       ELSE <<along(a, b), along(a, b)>>

\* segments of one wall, horizontal or vertical, as _get_nearby_segments
\* appends them (WALL_THICKNESS / 2 = 10)
wall_segments(c, horizontal, seed) ==
    LET half_thick == WALL_THICKNESS \div 2
        px == c[1]
        pz == c[2]
        ow == IF horizontal
              THEN opening_width(get_doorway_type(px, pz, px + PILLAR_SPACING, pz, seed))
              ELSE opening_width(get_doorway_type(px, pz, px, pz + PILLAR_SPACING, seed))
        a == IF horizontal THEN px ELSE pz
        b == a + PILLAR_SPACING
        opening_start == a + (PILLAR_SPACING - ow) \div 2
        opening_end == opening_start + ow
        line == IF horizontal THEN pz ELSE px
        along(s, e, off) == IF horizontal THEN <<s, line + off, e, line + off>>
                            ELSE <<line + off, s, line + off, e>>
        across(at) == IF horizontal THEN <<at, line - half_thick, at, line + half_thick>>
                      ELSE <<line - half_thick, at, line + half_thick, at>>
    IN IF ow > 0
       THEN <<along(a, opening_start, -half_thick), along(a, opening_start, half_thick),
              along(opening_end, b, -half_thick), along(opening_end, b, half_thick),
              across(opening_start), across(opening_end)>>
       ELSE <<along(a, b, -half_thick), along(a, b, half_thick)>>

pillar_segments(c) ==
    LET pillar_x == c[1] + PILLAR_SPACING \div 2
        pillar_z == c[2] + PILLAR_SPACING \div 2
        sz == PILLAR_SIZE
    IN <<<<pillar_x, pillar_z, pillar_x + sz, pillar_z>>,
         <<pillar_x + sz, pillar_z, pillar_x + sz, pillar_z + sz>>,
         <<pillar_x + sz, pillar_z + sz, pillar_x, pillar_z + sz>>,
         <<pillar_x, pillar_z + sz, pillar_x, pillar_z>>>>

\* one iteration of the loops of _get_nearby_segments for the cell c
segments_of_cell(w, c, seed, dpillars) ==
    LET h == has_wall_between(w, c[1], c[2], c[1] + PILLAR_SPACING, c[2], seed)
        hs == IF h.result /\ wall_solid(HorizontalKey(c), h.w.destroyed_walls)
              THEN wall_segments(c, TRUE, seed) ELSE <<>>
        v == has_wall_between(h.w, c[1], c[2], c[1], c[2] + PILLAR_SPACING, seed)
        vs == IF v.result /\ wall_solid(VerticalKey(c), v.w.destroyed_walls)
              THEN wall_segments(c, FALSE, seed) ELSE <<>>
        p == has_pillar_at(v.w, PillarKeyOf(c)[1], PillarKeyOf(c)[2], seed)
        ps == IF p.result /\ PillarKeyOf(c) \notin dpillars
              THEN pillar_segments(c) ELSE <<>>
    IN [result |-> hs \o vs \o ps, w |-> p.w]

\* CollisionSystem._get_nearby_segments(x, z) over the model's cells
RECURSIVE nearby_segments(_, _, _, _, _, _)
nearby_segments(w, cells, x, z, seed, dpillars) ==
    IF cells = <<>> THEN [result |-> <<>>, w |-> w]
    ELSE IF ~cell_in_range(Head(cells), x, z, PILLAR_SPACING * 2)
    THEN nearby_segments(w, Tail(cells), x, z, seed, dpillars)
    ELSE LET here == segments_of_cell(w, Head(cells), seed, dpillars)
             rest == nearby_segments(here.w, Tail(cells), x, z, seed, dpillars)
         IN [result |-> here.result \o rest.result, w |-> rest.w]

\* the point-vs-wall test of check_collision (player_radius 15, half_thick 10)
wall_blocks(c, horizontal, x, z, seed) ==
    LET player_radius == 15
        half_thick == WALL_THICKNESS \div 2
        px == c[1]
        pz == c[2]
        ow == IF horizontal
              THEN opening_width(get_doorway_type(px, pz, px + PILLAR_SPACING, pz, seed))
              ELSE opening_width(get_doorway_type(px, pz, px, pz + PILLAR_SPACING, seed))
        a == IF horizontal THEN px ELSE pz
        b == a + PILLAR_SPACING
        opening_start == a + (PILLAR_SPACING - ow) \div 2
        opening_end == opening_start + ow
        t == IF horizontal THEN x ELSE z
        d == IF horizontal THEN z - pz ELSE x - px
    IN IF ow > 0
       THEN /\ Abs(d) < half_thick + player_radius
            /\ \/ (a <= t /\ t <= opening_start - player_radius)
               \/ (opening_end + player_radius <= t /\ t <= b)
       ELSE /\ a - player_radius <= t
            /\ t <= b + player_radius
            /\ Abs(d) < half_thick + player_radius

\* box vs circle test of check_collision for the pillar of cell c
pillar_blocks(c, x, z) ==
    LET player_radius == 15
        pillar_x == c[1] + PILLAR_SPACING \div 2
        pillar_z == c[2] + PILLAR_SPACING \div 2
        closest_x == Max(pillar_x, Min(x, pillar_x + PILLAR_SIZE))
        closest_z == Max(pillar_z, Min(z, pillar_z + PILLAR_SIZE))
        dist_x == x - closest_x
        dist_z == z - closest_z
    IN dist_x * dist_x + dist_z * dist_z < player_radius * player_radius

\* one iteration of the loops of check_collision: "True" when it returns
\* True, "continue" when the loop goes on to the next cell
collision_in_cell(w, c, x, z, seed, dpillars) ==
    LET h == has_wall_between(w, c[1], c[2], c[1] + PILLAR_SPACING, c[2], seed)
        v == has_wall_between(h.w, c[1], c[2], c[1], c[2] + PILLAR_SPACING, seed)
        p == has_pillar_at(v.w, PillarKeyOf(c)[1], PillarKeyOf(c)[2], seed)
    IN IF h.result /\ ~wall_solid(HorizontalKey(c), h.w.destroyed_walls)
       THEN [result |-> "continue", w |-> h.w]
       ELSE IF h.result /\ wall_blocks(c, TRUE, x, z, seed)
       THEN [result |-> "True", w |-> h.w]
       ELSE IF v.result /\ ~wall_solid(VerticalKey(c), v.w.destroyed_walls)
       THEN [result |-> "continue", w |-> v.w]
       ELSE IF v.result /\ wall_blocks(c, FALSE, x, z, seed)
       THEN [result |-> "True", w |-> v.w]
       ELSE IF p.result /\ PillarKeyOf(c) \notin dpillars /\ pillar_blocks(c, x, z)
       THEN [result |-> "True", w |-> p.w]
       ELSE [result |-> "continue", w |-> p.w]

RECURSIVE collision_scan(_, _, _, _, _, _, _)
collision_scan(w, cells, x, z, check_range, seed, dpillars) ==
    IF cells = <<>> THEN [result |-> "False", w |-> w]
    ELSE IF ~cell_in_range(Head(cells), x, z, check_range)
    THEN collision_scan(w, Tail(cells), x, z, check_range, seed, dpillars)
    ELSE LET here == collision_in_cell(w, Head(cells), x, z, seed, dpillars)
         IN IF here.result = "True" THEN here
            ELSE collision_scan(here.w, Tail(cells), x, z, check_range, seed, dpillars)

\* World.check_collision(x, z) for finite integer positions
check_collision(w, x, z, seed, dpillars) ==
    LET zone == get_zone_at(x, z)
        wz == with_zone(w, zone, seed)
    IN collision_scan(wz, GridCellSeq, x, z, room_size_of(wz, zone) * 2, seed, dpillars)

\* writes the world part a query returned
Commit(w) ==
    /\ zone_cache' = w.zone_cache
    /\ wall_cache' = w.wall_cache
    /\ pillar_cache' = w.pillar_cache
    /\ pre_damaged_walls' = w.pre_damaged_walls
    /\ destroyed_walls' = w.destroyed_walls

BoolStr(b) == IF b THEN "True" ELSE "False"

QueryFrame ==
    /\ emitted' = <<>>
    /\ UNCHANGED <<bus_vars, player_vars, other_vars>>
    /\ UNCHANGED <<world_seed, destroyed_pillars, wall_states, wall_health,
                   wall_cracks, debris_pieces, observed>>

HasWallBetween(x1, z1, x2, z2) ==
    LET r == has_wall_between(QueryState, x1, z1, x2, z2, world_seed)
    IN /\ call' = [op |-> "has_wall_between", args |-> <<x1, z1, x2, z2>>]
       /\ ret' = BoolStr(r.result)
       /\ segments' = <<>>
       /\ Commit(r.w)
       /\ QueryFrame

HasPillarAt(px, pz) ==
    LET r == has_pillar_at(QueryState, px, pz, world_seed)
    IN /\ call' = [op |-> "has_pillar_at", args |-> <<px, pz>>]
       /\ ret' = BoolStr(r.result)
       /\ segments' = <<>>
       /\ Commit(r.w)
       /\ QueryFrame

CheckCollision(x, z) ==
    LET r == check_collision(QueryState, x, z, world_seed, destroyed_pillars)
    IN /\ call' = [op |-> "check_collision", args |-> <<x, z>>]
       /\ ret' = r.result
       /\ segments' = <<>>
       /\ Commit(r.w)
       /\ QueryFrame

\* CollisionSystem._get_nearby_segments(x, z), the one place where
\* resolve_collision reads and writes the world
GetNearbySegments(x, z) ==
    LET r == nearby_segments(QueryState, GridCellSeq, x, z, world_seed, destroyed_pillars)
    IN /\ call' = [op |-> "_get_nearby_segments", args |-> <<x, z>>]
       /\ ret' = "None"
       /\ segments' = r.result
       /\ Commit(r.w)
       /\ QueryFrame

\* arguments of the direct has_wall_between calls: each wall as the scans
\* pass it, and with the two grid points exchanged
WallQueries == {<<k[1][1], k[1][2], k[2][1], k[2][2]>> : k \in WallKeys}
ReversedWallQueries == {<<k[2][1], k[2][2], k[1][1], k[1][2]>> : k \in WallKeys}

\* positions of the collision queries: beside the horizontal wall, beside
\* the vertical wall and at the pillar
Positions == {<<200, 12>>, <<12, 200>>, <<210, 210>>}

\* damages of the hits in the world specification: a repair, and a blow that
\* takes a wall to zero health from any health it can have
WorldDamages == {-5, 25}

HitWallStep == \E k \in WallKeys, d \in Damages : hit_wall(k, d)
DestroyWallStep == \E k \in WallKeys : destroy_wall(k)
DestroyPillarStep == \E p \in PillarKeys : destroy_pillar(p)
UpdateDebrisStep == \E keep \in SUBSET (1..Len(debris_pieces)) : update_debris(keep)
HasWallBetweenStep == \E q \in WallQueries : HasWallBetween(q[1], q[2], q[3], q[4])

\* the damage machine: hits, instant destruction, debris ageing, and the
\* wall query whose decay roll can destroy a wall before any hit
Next ==
    \/ HitWallStep
    \/ DestroyWallStep
    \/ DestroyPillarStep
    \/ UpdateDebrisStep
    \/ HasWallBetweenStep

Spec == Init /\ [][Next]_vars

WorldHitStep == \E k \in WallKeys, d \in WorldDamages : hit_wall(k, d)
AnyWallQueryStep ==
    \E q \in WallQueries \cup ReversedWallQueries : HasWallBetween(q[1], q[2], q[3], q[4])
HasPillarAtStep == \E p \in PillarKeys : HasPillarAt(p[1], p[2])
CheckCollisionStep == \E p \in Positions : CheckCollision(p[1], p[2])
GetNearbySegmentsStep == \E p \in Positions : GetNearbySegments(p[1], p[2])

\* the world with its queries and the collision scans
NextWorld ==
    \/ WorldHitStep
    \/ DestroyWallStep
    \/ DestroyPillarStep
    \/ UpdateDebrisStep
    \/ AnyWallQueryStep
    \/ HasPillarAtStep
    \/ CheckCollisionStep
    \/ GetNearbySegmentsStep

\* the world specification constructs its worlds with these seeds
WorldSeeds == {41}
InitWorld == Init /\ world_seed \in WorldSeeds

SpecWorld == InitWorld /\ [][NextWorld]_vars

\* ------------------------------------------------------------------------
\* Properties
\* ------------------------------------------------------------------------
\* the step is a hit_wall call on wall_key
HitOn(wall_key) == call'.op = "hit_wall" /\ call'.args[1] = wall_key

\* position of a state in Intact -> Cracked -> Fractured -> Breaking -> Destroyed
Rank(state) ==
    CASE state = "INTACT" -> 0
      [] state = "CRACKED" -> 1
      [] state = "FRACTURED" -> 2
      [] state = "BREAKING" -> 3
      [] state = "DESTROYED" -> 4

\* C1: no hit_wall call moves the damage state of a wall back to an earlier
\* state of Intact -> Cracked -> Fractured -> Destroyed.
C1_StateOnlyAdvances ==
    [][\A k \in WallKeys :
          HitOn(k) => Rank((get_wall_state(k))') >= Rank(get_wall_state(k))]_vars

\* C2: the health of a wall after a hit_wall call is never greater than its
\* health before the call.
C2_HealthNonIncreasing ==
    [][\A k \in WallKeys :
          HitOn(k) => (get_wall_health(k))' <= get_wall_health(k)]_vars

\* C3: the recorded health of every wall key lies in [0, 1] in every
\* reachable state.
C3_HealthInUnitInterval ==
    \A k \in DOMAIN wall_health : 0 <= wall_health[k] /\ wall_health[k] <= FULL_HEALTH

\* the threshold function as the claim states it: health <= 0 Destroyed,
\* 0 < health <= 0.25 Fractured, 0.25 < health <= 0.6 Cracked, else Intact
ClaimedState(health) ==
    CASE health <= 0 -> "DESTROYED"
      [] 0 < health /\ 4 * health <= FULL_HEALTH -> "FRACTURED"
      [] 4 * health > FULL_HEALTH /\ 5 * health <= 3 * FULL_HEALTH -> "CRACKED"
      [] OTHER -> "INTACT"

\* the scenario of four hits of 0.25: health after a hit of 0.25 on a wall
\* at 1.0, 0.75, 0.5, 0.25 and the state that goes with it
ScenarioAfter ==
    [h \in {20, 15, 10, 5} |->
        CASE h = 20 -> <<15, "INTACT">>
          [] h = 15 -> <<10, "CRACKED">>
          [] h = 10 -> <<5, "FRACTURED">>
          [] h = 5 -> <<0, "DESTROYED">>]

\* C4: after every hit_wall call on a wall that was not already destroyed the
\* recorded state is the threshold function of the new health, boundaries
\* 0.25 and 0.6 inclusive, and hits of 0.25 take a fresh wall through health
\* 1.0, 0.75, 0.5, 0.25, 0.0 and states Intact, Intact, Cracked, Fractured,
\* Destroyed.
C4_StateIsThresholdOfHealth ==
    [][\A k \in WallKeys :
          (HitOn(k) /\ k \notin destroyed_walls) =>
              /\ k \in DOMAIN wall_states' /\ k \in DOMAIN wall_health'
              /\ wall_states'[k] = ClaimedState(wall_health'[k])
              /\ (call'.args[2] = 5 /\ get_wall_health(k) \in DOMAIN ScenarioAfter) =>
                    <<wall_health'[k], wall_states'[k]>> = ScenarioAfter[get_wall_health(k)]]_vars

\* one wall sits on the 0.6 boundary as Cracked while the fourth hit of 0.25
\* has just destroyed the other
C4_Witness ==
    /\ call.op = "hit_wall" /\ call.args[2] = 5 /\ ret = "True"
    /\ Get(wall_health, call.args[1], FULL_HEALTH) = 0
    /\ \E k \in WallKeys :
          /\ k # call.args[1]
          /\ Get(wall_health, k, FULL_HEALTH) = CRACKED_AT
          /\ Get(wall_states, k, "INTACT") = "CRACKED"

\* C5: hit_wall returns True exactly on the call that takes the wall into
\* Destroyed; every other call, also one on a destroyed wall, returns False.
C5_TrueOnlyOnDestroyingCall ==
    [][\A k \in WallKeys :
          HitOn(k) =>
              /\ ret' \in {"True", "False"}
              /\ ret' = "True" <=> (/\ get_wall_state(k) # "DESTROYED"
                                    /\ (get_wall_state(k))' = "DESTROYED")]_vars

\* a hit has just destroyed a wall and returned True
C5_Witness ==
    /\ call.op = "hit_wall" /\ ret = "True"
    /\ call.args[1] \in destroyed_walls
    /\ Get(wall_states, call.args[1], "INTACT") = "DESTROYED"

\* C6: exactly one WALL_DESTROYED notification is observed for a wall that
\* hit_wall or destroy_wall destroys, it is emitted by the call that destroys
\* the wall, and no later call on that key emits another.
C6_ExactlyOneDestroyedNotification ==
    /\ [](\A k \in WallKeys :
            observed[k] = IF Get(wall_states, k, "INTACT") = "DESTROYED" THEN 1 ELSE 0)
    /\ [][\A k \in WallKeys :
            observed'[k] # observed[k] =>
                /\ call'.op \in {"hit_wall", "destroy_wall"}
                /\ call'.args[1] = k
                /\ k \notin destroyed_walls
                /\ k \in destroyed_walls'
                /\ emitted' = <<Event("WALL_DESTROYED", k, get_wall_center(k), None)>>]_vars

\* a call on a wall whose destruction was observed once emits nothing more
C6_Witness ==
    /\ call.op \in {"hit_wall", "destroy_wall"}
    /\ call.args[1] \in destroyed_walls
    /\ observed[call.args[1]] = 1
    /\ emitted = <<>>

\* the step appends one burst of n particles to the debris list
Spawns(n) == debris_pieces' = Append(debris_pieces, n)

\* C7: every hit_wall call that changes the damage state of the wall spawns a
\* debris burst and emits a state-change notification carrying the center of
\* the wall.
C7_EveryTransitionNotifies ==
    [][\A k \in WallKeys :
          (HitOn(k) /\ (get_wall_state(k))' # get_wall_state(k)) =>
              /\ Len(debris_pieces') = Len(debris_pieces) + 1
              /\ Len(emitted') = 1
              /\ emitted'[1].type \in {"WALL_CRACKED", "WALL_FRACTURED", "WALL_DESTROYED"}
              /\ emitted'[1].key = k
              /\ emitted'[1].position = get_wall_center(k)]_vars

C9_SecondDestroyIsNoOp ==
    [][/\ (call'.op = "destroy_wall" /\ call'.args[1] \in destroyed_walls) =>
             (UNCHANGED world_vars /\ emitted' = <<>> /\ observed' = observed)
       /\ (call'.op = "destroy_pillar" /\ call'.args[1] \in destroyed_pillars) =>
             (UNCHANGED world_vars /\ emitted' = <<>> /\ observed' = observed)
       /\ (call'.op = "destroy_wall" /\ call'.args[1] \notin destroyed_walls) =>
             /\ Len(debris_pieces') = Len(debris_pieces) + 1
             /\ Len(emitted') = 1 /\ emitted'[1].type = "WALL_DESTROYED"
             /\ call'.args[1] \in destroyed_walls'
       /\ (call'.op = "destroy_pillar" /\ call'.args[1] \notin destroyed_pillars) =>
             /\ Len(debris_pieces') = Len(debris_pieces) + 1
             /\ Len(emitted') = 1 /\ emitted'[1].type = "PILLAR_DESTROYED"
             /\ call'.args[1] \in destroyed_pillars']_vars

\* destroy_pillar has just returned from a key that was already destroyed
C9_Witness ==
    /\ call.op = "destroy_pillar"
    /\ call.args[1] \in destroyed_pillars
    /\ emitted = <<>>

SeqRange(s) == {s[i] : i \in 1..Len(s)}

\* something solid, by the destroyed sets, blocks the position (x, z)
SolidBlocker(x, z) ==
    \E c \in GridCells :
        \/ /\ HorizontalKey(c) \notin destroyed_walls
           /\ Get(wall_cache, HorizontalKey(c), FALSE)
           /\ wall_blocks(c, TRUE, x, z, world_seed)
        \/ /\ VerticalKey(c) \notin destroyed_walls
           /\ Get(wall_cache, VerticalKey(c), FALSE)
           /\ wall_blocks(c, FALSE, x, z, world_seed)
        \/ /\ PillarKeyOf(c) \notin destroyed_pillars
           /\ Get(pillar_cache, PillarKeyOf(c), FALSE)
           /\ pillar_blocks(c, x, z)

\* C10: a destroyed wall stays destroyed: no hit_wall, destroy_wall,
\* destroy_pillar, has_wall_between, has_pillar_at, check_collision,
\* segment scan of resolve_collision or update_debris call removes a key from
\* the destroyed set, no segment list contains a segment of a destroyed wall
\* and check_collision reports a collision only where something that is
\* not destroyed blocks.
C10_DestroyedStaysOutOfCollision ==
    /\ [][destroyed_walls \subseteq destroyed_walls']_vars
    /\ [](\A c \in GridCells :
            /\ HorizontalKey(c) \in destroyed_walls =>
                  SeqRange(wall_segments(c, TRUE, world_seed)) \cap SeqRange(segments) = {}
            /\ VerticalKey(c) \in destroyed_walls =>
                  SeqRange(wall_segments(c, FALSE, world_seed)) \cap SeqRange(segments) = {})
    /\ []((call.op = "check_collision" /\ ret = "True") =>
            SolidBlocker(call.args[1], call.args[2]))

\* a segment scan has run over a wall that a call destroyed and that the
\* wall query reports as existing, and has returned other geometry
C10_Witness ==
    /\ call.op = "_get_nearby_segments"
    /\ segments # <<>>
    /\ \E k \in destroyed_walls :
          /\ Get(wall_states, k, "INTACT") = "DESTROYED"
          /\ Get(wall_cache, k, FALSE)

\* ------------------------------------------------------------------------
\* The procedural queries under several seeds and grid sizes
\* ------------------------------------------------------------------------
\* World.get_doorway_type(x1, z1, x2, z2) as a call
GetDoorwayType(x1, z1, x2, z2) ==
    /\ call' = [op |-> "get_doorway_type", args |-> <<x1, z1, x2, z2>>]
    /\ ret' = get_doorway_type(x1, z1, x2, z2, world_seed)
    /\ segments' = <<>>
    /\ Commit(QueryState)
    /\ QueryFrame

\* World.get_zone_properties(zone_x, zone_z) as a call; the archetype name
\* stands for the record returned
GetZoneProperties(zone_x, zone_z) ==
    /\ call' = [op |-> "get_zone_properties", args |-> <<zone_x, zone_z>>]
    /\ ret' = zone_properties(with_zone(QueryState, <<zone_x, zone_z>>, world_seed),
                               <<zone_x, zone_z>>).zone_type
    /\ segments' = <<>>
    /\ Commit(with_zone(QueryState, <<zone_x, zone_z>>, world_seed))
    /\ QueryFrame

\* seeds of the query specification: zone (0, 0) is a maze of room size
\* 400 under seed 41 and a coliseum of room size 4000 under seed 6
QuerySeeds == {6, 41}

\* walls of the coliseum grid at the origin
ColiseumQueries == {<<0, 0, 4000, 0>>, <<0, 0, 0, 4000>>}

\* argument tuples of the wall queries: both grids, both orders of the points
QueryArgs ==
    WallQueries \cup ReversedWallQueries \cup ColiseumQueries
        \cup {<<q[3], q[4], q[1], q[2]>> : q \in ColiseumQueries}

QueryZones == {<<0, 0>>}

QueryWallStep == \E q \in QueryArgs : HasWallBetween(q[1], q[2], q[3], q[4])
GetDoorwayTypeStep == \E q \in QueryArgs : GetDoorwayType(q[1], q[2], q[3], q[4])
GetZonePropertiesStep == \E zn \in QueryZones : GetZoneProperties(zn[1], zn[2])

NextQuery ==
    \/ QueryWallStep
    \/ HasPillarAtStep
    \/ GetDoorwayTypeStep
    \/ GetZonePropertiesStep
    \/ WorldHitStep
    \/ DestroyWallStep
    \/ DestroyPillarStep

InitQuery == Constructed(QuerySeeds)

SpecQuery == InitQuery /\ [][NextQuery]_vars

\* the memoized part of a world that has answered no query yet
FreshQuery ==
    [zone_cache |-> EmptyDict, wall_cache |-> EmptyDict, pillar_cache |-> EmptyDict,
     pre_damaged_walls |-> EmptyDict, destroyed_walls |-> {}]

\* C11: for a fixed seed, has_wall_between, has_pillar_at, get_doorway_type
\* and the zone properties answer a call with what a freshly constructed
\* world of that seed answers for the same arguments, whatever queries, hits
\* and destructions came before the call.
C11_QueriesAreDeterministic ==
    /\ call.op = "has_wall_between" =>
          ret = BoolStr(has_wall_between(FreshQuery, call.args[1], call.args[2],
                                         call.args[3], call.args[4], world_seed).result)
    /\ call.op = "has_pillar_at" =>
          ret = BoolStr(has_pillar_at(FreshQuery, call.args[1], call.args[2],
                                      world_seed).result)
    /\ call.op = "get_doorway_type" =>
          ret = get_doorway_type(call.args[1], call.args[2], call.args[3],
                                 call.args[4], world_seed)
    /\ call.op = "get_zone_properties" =>
          ret = get_zone_properties(call.args[1], call.args[2], world_seed).zone_type

\* a wall query with the points exchanged was answered True from the cache
\* after a call had destroyed the wall
C11_Witness ==
    /\ call.op = "has_wall_between"
    /\ ret = "True"
    /\ <<call.args[3], call.args[4]>> = <<0, 0>>
    /\ WallKeyOf(call.args[1], call.args[2], call.args[3], call.args[4]) \in destroyed_walls
    /\ Get(wall_states, WallKeyOf(call.args[1], call.args[2], call.args[3], call.args[4]),
           "INTACT") = "DESTROYED"

\* the archetype of the zone that owns the wall between the two points
owning_zone_properties(x1, z1, x2, z2) ==
    LET zone == zone_of_center(x1, z1, x2, z2)
    IN get_zone_properties(zone[1], zone[2], world_seed)

\* C12: has_wall_between is gated by the wall probability of the owning
\* zone: for a zone whose wall_chance is 0 it returns False for every key of
\* the zone.
C12_ZeroWallChanceMeansNoWall ==
    (call.op = "has_wall_between"
        /\ owning_zone_properties(call.args[1], call.args[2],
                                  call.args[3], call.args[4]).wall_chance = 0)
    => ret = "False"

\* ------------------------------------------------------------------------
\* Save and load (src/world.py, src/save_system.py)
\* ------------------------------------------------------------------------
\* Python sequences keep their type: a tuple and a list of the same items
\* are different values
PyTuple(items) == [kind |-> "tuple", items |-> items]
PyList(items) == [kind |-> "list", items |-> items]

\* a wall key of the model as the Python value ((x1, z1), (x2, z2))
py_wall_key(wall_key) == PyTuple(<<PyTuple(wall_key[1]), PyTuple(wall_key[2])>>)

\* the wall key of the model for a Python tuple of two tuples
wall_key_of_py(t) == <<t.items[1].items, t.items[2].items>>

\* the sequences that list the elements of a set once each, in any order
RECURSIVE Orders(_)
Orders(S) ==
    IF S = {} THEN {<<>>}
    ELSE UNION {{<<x>> \o rest : rest \in Orders(S \ {x})} : x \in S}

\* list(wall) for a wall key: a list of its two points
list_of_wall(wall_key) == PyList(py_wall_key(wall_key).items)

\* World.get_state_for_save() where iterating the destroyed set yields order
get_state_for_save(seed, order) ==
    [seed |-> seed,
     destroyed_walls |-> PyList([i \in 1..Len(order) |-> list_of_wall(order[i])])]

\* json.dump followed by json.load: every sequence comes back as a list,
\* the integers as they were
json_point(point) == PyList(point.items)
json_wall(wall) == PyList([i \in 1..Len(wall.items) |-> json_point(wall.items[i])])
json_value(walls) == PyList([i \in 1..Len(walls.items) |-> json_wall(walls.items[i])])

\* the 'world' entry of a save file written from the snapshot data
json_round_trip(data) ==
    [seed |-> data.seed, destroyed_walls |-> json_value(data.destroyed_walls)]

\* tuple(tuple(point) for point in wall) with the points exchanged
wall_from_saved_swapped(wall) ==
    PyTuple(<<PyTuple(wall.items[2].items), PyTuple(wall.items[1].items)>>)

\* tuple(tuple(point) for point in wall)
wall_from_saved(wall) ==
    PyTuple([i \in 1..Len(wall.items) |-> PyTuple(wall.items[i].items)])

\* World.load_state(data) without the three clear() calls
load_state_keeping_caches(data) ==
    LET destroyed_walls_list == Get(data, "destroyed_walls", PyList(<<>>))
    IN /\ call' = [op |-> "load_state", args |-> <<data>>]
       /\ ret' = "None"
       /\ segments' = <<>>
       /\ emitted' = <<>>
       /\ world_seed' = Get(data, "seed", world_seed)
       /\ destroyed_walls' =
              {wall_key_of_py(wall_from_saved(destroyed_walls_list.items[i])) :
                   i \in 1..Len(destroyed_walls_list.items)}
       /\ UNCHANGED <<pillar_cache, wall_cache, zone_cache>>
       /\ UNCHANGED <<bus_vars, player_vars, other_vars>>
       /\ UNCHANGED <<pre_damaged_walls, destroyed_pillars, wall_states, wall_health,
                      wall_cracks, debris_pieces, observed>>

\* World.load_state(data)
load_state(data) ==
    LET destroyed_walls_list == Get(data, "destroyed_walls", PyList(<<>>))
    IN /\ call' = [op |-> "load_state", args |-> <<data>>]
       /\ ret' = "None"
       /\ segments' = <<>>
       /\ emitted' = <<>>
       /\ world_seed' = Get(data, "seed", world_seed)
       /\ destroyed_walls' =
              {wall_key_of_py(wall_from_saved(destroyed_walls_list.items[i])) :
                   i \in 1..Len(destroyed_walls_list.items)}
       /\ pillar_cache' = EmptyDict
       /\ wall_cache' = EmptyDict
       /\ zone_cache' = EmptyDict
       /\ UNCHANGED <<bus_vars, player_vars, other_vars>>
       /\ UNCHANGED <<pre_damaged_walls, destroyed_pillars, wall_states, wall_health,
                      wall_cracks, debris_pieces, observed>>

\* seeds of the worlds that are saved and loaded
SaveSeeds == {0, 41}

\* damages of the hits in the save specification
SaveDamages == {8, 20}

\* snapshots of a seed and a destroyed set, as returned and as read back
\* from a save file
SnapshotsOf(seed, destroyed) ==
    UNION {{get_state_for_save(seed, o), json_round_trip(get_state_for_save(seed, o))} :
               o \in Orders(destroyed)}

\* data handed to load_state: the 'world' entry of a save file of any of
\* the worlds, or the empty dict of a save file without one
SnapshotInputs ==
    {EmptyDict} \cup
    UNION {SnapshotsOf(seed, destroyed) : seed \in SaveSeeds, destroyed \in SUBSET WallKeys}

SaveHitStep == \E k \in WallKeys, d \in SaveDamages : hit_wall(k, d)
LoadStateStep == \E data \in SnapshotInputs : load_state(data)

NextSave ==
    \/ SaveHitStep
    \/ HasWallBetweenStep
    \/ UpdateDebrisStep
    \/ LoadStateStep

InitSave == Constructed(SaveSeeds)

SpecSave == InitSave /\ [][NextSave]_vars

\* what hit_wall(wall_key, damage) returns on a freshly constructed world
\* whose destroyed set is destroyed
fresh_hit_returns(wall_key, damage, destroyed) ==
    IF wall_key \in destroyed THEN "False"
    ELSE BoolStr(hit_returns("INTACT", state_of_health(apply_damage(FULL_HEALTH, damage))))

\* the state hit_wall(wall_key, damage) leaves the wall in on such a world
fresh_hit_state(wall_key, damage, destroyed) ==
    IF wall_key \in destroyed THEN "DESTROYED"
    ELSE state_of_health(apply_damage(FULL_HEALTH, damage))

\* C13: after load_state the world answers as a freshly constructed world
\* with the loaded seed and destroyed set: for every wall key get_wall_state,
\* get_wall_health, get_wall_damage and is_wall_destroyed have the values of
\* the fresh world, and a hit_wall that follows returns and leaves the state
\* that it does on the fresh world.
C13_LoadedWorldEqualsFresh ==
    /\ [](call.op = "load_state" =>
            \A k \in WallKeys :
                /\ get_wall_state(k) = IF k \in destroyed_walls THEN "DESTROYED" ELSE "INTACT"
                /\ get_wall_health(k) = IF k \in destroyed_walls THEN 0 ELSE FULL_HEALTH
                /\ get_wall_damage(k) = 10000)
    /\ [][\A k \in WallKeys :
            (call.op = "load_state" /\ HitOn(k)) =>
                /\ ret' = fresh_hit_returns(k, call'.args[2], destroyed_walls)
                /\ (get_wall_state(k))' = fresh_hit_state(k, call'.args[2], destroyed_walls)]_vars

\* C14: load_state(get_state_for_save()), also through the save file, leaves
\* the seed and the destroyed-wall set unchanged, every destroyed key coming
\* back as the same pair of grid points.
C14_SaveLoadRoundTrip ==
    [][(call'.op = "load_state"
          /\ call'.args[1] \in SnapshotsOf(world_seed, destroyed_walls)) =>
              /\ world_seed' = world_seed
              /\ destroyed_walls' = destroyed_walls]_vars

\* the world has just loaded its own snapshot read back from a save file,
\* with two destroyed walls of which a call destroyed one
C14_Witness ==
    /\ call.op = "load_state"
    /\ Cardinality(destroyed_walls) = 2
    /\ \E o \in Orders(destroyed_walls) :
          call.args[1] = json_round_trip(get_state_for_save(world_seed, o))
    /\ \E k \in destroyed_walls : Get(wall_states, k, "INTACT") = "DESTROYED"

\* C15: in every reachable state every wall key whose recorded pre-existing
\* damage roll is below the destroyed threshold is in the destroyed-wall set.
C15_DecayedWallsAreDestroyed ==
    \A k \in DOMAIN pre_damaged_walls :
        pre_damaged_walls[k] < DECAY_DESTROYED_BELOW => k \in destroyed_walls

\* ------------------------------------------------------------------------
\* The debris cap (src/world.py): many walls destroyed within one frame
\* ------------------------------------------------------------------------
\* walls destroyed in a row between two update_debris calls, at most
MaxDestroyedInFrame == 14

\* the i-th wall of a corridor beside the cells of the model
CorridorKey(i) == <<<<PILLAR_SPACING * i, 0>>, <<PILLAR_SPACING * (i + 1), 0>>>>

\* the world after construction and destroy_wall on the first n corridor walls
DestroyedInARow(n) ==
    /\ world_seed \in WorldSeeds
    /\ zone_cache = EmptyDict
    /\ wall_cache = EmptyDict
    /\ pillar_cache = EmptyDict
    /\ pre_damaged_walls = EmptyDict
    /\ destroyed_walls = {CorridorKey(i) : i \in 1..n}
    /\ destroyed_pillars = {}
    /\ wall_states = [k \in {CorridorKey(i) : i \in 1..n} |-> "DESTROYED"]
    /\ wall_health = [k \in {CorridorKey(i) : i \in 1..n} |-> 0]
    /\ wall_cracks = {}
    /\ debris_pieces = [i \in 1..n |-> num_particles(i)]
    /\ emitted = IF n = 0 THEN <<>>
                 ELSE <<Event("WALL_DESTROYED", CorridorKey(n), get_wall_center(CorridorKey(n)), None)>>
    /\ observed = [k \in WallKeys |-> 0]
    /\ ret = "None"
    /\ segments = <<>>
    /\ call = IF n = 0 THEN [op |-> "init", args |-> <<>>]
              ELSE [op |-> "destroy_wall", args |-> <<CorridorKey(n)>>]
    /\ BusConstructed
    /\ PlayerConstructed
    /\ OtherConstructed

\* which bursts are still active after ageing and culling: all, none, all
\* but the oldest, all but the newest, every second one
KeepChoices(n) ==
    {1..n, {}, 2..n, 1..(n - 1), {i \in 1..n : i % 2 = 1}}

DebrisUpdateStep == \E keep \in KeepChoices(Len(debris_pieces)) : update_debris(keep)

NextDebris ==
    \/ DebrisUpdateStep
    \/ DestroyWallStep

InitDebris == \E n \in 0..MaxDestroyedInFrame : DestroyedInARow(n)

SpecDebris == InitDebris /\ [][NextDebris]_vars

\* the list after consists of the newest particles of the list before:
\* its bursts are the last bursts of before, the first of them possibly cut
IsNewestOf(after, before) ==
    /\ Len(after) <= Len(before)
    /\ \A i \in 1..Len(after) :
          LET j == Len(before) - Len(after) + i
          IN IF i = 1 THEN 0 < after[i] /\ after[i] <= before[j]
             ELSE after[i] = before[j]

\* C16: after every update_debris call the world holds at most MAX_DEBRIS
\* particles, all the active ones when they fit, and when the cap trims the
\* list exactly the MAX_DEBRIS most recently spawned active ones.
C16_DebrisCapKeepsNewest ==
    [][call'.op = "update_debris" =>
          LET active == keep_active(debris_pieces, call'.args[1], 1)
          IN /\ SeqSum(debris_pieces') <= MAX_DEBRIS
             /\ SeqSum(debris_pieces') = Min(SeqSum(active), MAX_DEBRIS)
             /\ IsNewestOf(debris_pieces', active)]_vars

\* update_debris has just trimmed the list: the cap is reached exactly and
\* the oldest burst left is cut
C16_Witness ==
    /\ call.op = "update_debris"
    /\ DebrisCount = MAX_DEBRIS
    /\ Len(debris_pieces) >= 2
    /\ \A i \in 1..MaxDestroyedInFrame : debris_pieces[1] # num_particles(i)

\* ------------------------------------------------------------------------
\* Event bus: subscription, deferred events and the per-frame flush
\* ------------------------------------------------------------------------
\* a call on the bus leaves the world and the player alone
BusFrame ==
    /\ segments' = <<>>
    /\ emitted' = <<>>
    /\ UNCHANGED <<world_vars, observed, player_vars, other_vars>>

\* event_bus.subscribe(event_type, handler)
Subscribe(event_type, handler) ==
    /\ call' = [op |-> "subscribe", args |-> <<event_type, handler>>]
    /\ ret' = "None"
    /\ subscribers' = subscribe(subscribers, event_type, handler)
    /\ UNCHANGED <<bus_queue, bus_processing, delivered, queued_log, invoked, nested>>
    /\ BusFrame

\* event_bus.queue(event_type, **data) called from the frame's update code
Queue(event_type) ==
    /\ Len(queued_log) < MaxQueued
    /\ call' = [op |-> "queue", args |-> <<event_type>>]
    /\ ret' = "None"
    /\ BusCommit(queue(BusState, event_type))
    /\ UNCHANGED subscribers
    /\ BusFrame

\* event_bus.process_queue() as BackroomsEngine.update calls it once a frame
ProcessQueue ==
    LET b == process_queue(subscribers, BusState)
    IN /\ call' = [op |-> "process_queue", args |-> <<>>]
       /\ ret' = Returned(b, "None")
       /\ BusCommit(b)
       /\ UNCHANGED subscribers
       /\ BusFrame

\* the subscriptions made: listeners of every kind on footsteps, and one on
\* the flicker a chained listener queues
BusSubscriptions ==
    {<<"PLAYER_STEP", h>> : h \in Handlers} \cup {<<"FLICKER", "listener">>}

\* the event types queued from the update code
QueueTypes == {"PLAYER_STEP", "PLAYER_LAND"}

SubscribeStep == \E sub \in BusSubscriptions : Subscribe(sub[1], sub[2])
QueueStep == \E t \in QueueTypes : Queue(t)
ProcessQueueStep == ProcessQueue

NextBus ==
    \/ SubscribeStep
    \/ QueueStep
    \/ ProcessQueueStep

InitBus == Constructed(WorldSeeds)

SpecBus == InitBus /\ [][NextBus]_vars

\* C17: every event handed to EventBus.queue is handed to emit by
\* process_queue exactly once and in the order it was queued (what has been
\* delivered followed by what is still queued is the list of the events
\* queued), and when a top-level process_queue call returns the queue is
\* empty and every event queued so far has been delivered, also the events
\* handlers queued during the flush.
C17_QueuedEventsDeliveredOnceInOrder ==
    /\ [](delivered \o bus_queue = queued_log)
    /\ [][call'.op = "process_queue" =>
             /\ bus_queue' = <<>>
             /\ delivered' = queued_log'
             /\ ~bus_processing']_vars

\* a flush has delivered three events in order, the last of them queued by
\* a handler while the flush ran
C17_Witness ==
    /\ call.op = "process_queue"
    /\ Len(delivered) = 3
    /\ delivered = queued_log
    /\ delivered[3].type = "FLICKER"
    /\ \E i \in DOMAIN invoked : invoked[i].handler = "chained"

\* C18: a process_queue call a handler makes while a flush is in progress
\* returns without delivering an event and without changing the queue, and
\* the flush that was in progress still delivers every queued event in
\* order.
C18_ReentrantFlushIsNoOp ==
    [][call'.op = "process_queue" =>
          /\ \A i \in DOMAIN nested' :
                 nested'[i].processing =>
                     /\ nested'[i].queue_after = nested'[i].queue_before
                     /\ nested'[i].delivered_after = nested'[i].delivered_before
          /\ nested' # <<>> => (bus_queue' = <<>> /\ delivered' = queued_log')]_vars

\* a handler called process_queue during a flush while an event was still
\* waiting in the queue, and the flush went on to deliver that event
C18_Witness ==
    /\ call.op = "process_queue"
    /\ \E i \in DOMAIN nested :
           /\ nested[i].processing
           /\ nested[i].queue_before # <<>>
    /\ delivered = queued_log
    /\ Len(delivered) >= 2

\* ------------------------------------------------------------------------
\* Listeners that fail while the world notifies them
\* ------------------------------------------------------------------------
\* the subscriptions of the damage listeners: on wall destruction one that
\* returns, one that raises and one that flushes the queue; on pillar
\* destruction one that raises and one that returns
EmitSubscriptions ==
    {<<"WALL_DESTROYED", h>> : h \in {"listener", "failing", "reentrant"}}
        \cup {<<"PILLAR_DESTROYED", h>> : h \in {"failing", "listener"}}

\* damage of the hits: 1.0, which destroys a wall at one blow
EmitDamages == {20}

EmitSubscribeStep == \E sub \in EmitSubscriptions : Subscribe(sub[1], sub[2])
EmitHitStep == \E k \in WallKeys, d \in EmitDamages : hit_wall(k, d)

NextEmit ==
    \/ EmitSubscribeStep
    \/ EmitHitStep
    \/ DestroyWallStep
    \/ DestroyPillarStep
    \/ UpdateDebrisStep

InitEmit == Constructed(WorldSeeds)

SpecEmit == InitEmit /\ [][NextEmit]_vars

\* the handlers of a list of invocations, in order
HandlersOf(invocations) == [i \in DOMAIN invocations |-> invocations[i].handler]

\* C19: when hit_wall, destroy_wall or destroy_pillar emits an event, every
\* handler subscribed to its type is invoked, in subscription order, also
\* after a handler that raised; no exception reaches the caller, which
\* returns its value with the health, state and destroyed sets written.
C19_FailingHandlerIsIsolated ==
    [][(call'.op \in {"hit_wall", "destroy_wall", "destroy_pillar"} /\ emitted' # <<>>) =>
          /\ HandlersOf(invoked') = subscribers[emitted'[1].type]
          /\ ret' # "Exception"
          /\ call'.op = "hit_wall" =>
                 /\ wall_health'[call'.args[1]] =
                        apply_damage(Get(wall_health, call'.args[1], FULL_HEALTH),
                                     call'.args[2])
                 /\ wall_states'[call'.args[1]] = state_of_health(wall_health'[call'.args[1]])
                 /\ ret' = BoolStr(emitted'[1].type = "WALL_DESTROYED")
                 /\ ret' = "True" => call'.args[1] \in destroyed_walls'
          /\ call'.op = "destroy_wall" =>
                 /\ call'.args[1] \in destroyed_walls'
                 /\ wall_states'[call'.args[1]] = "DESTROYED"
          /\ call'.op = "destroy_pillar" => call'.args[1] \in destroyed_pillars']_vars

\* a hit destroyed a wall while the second of three listeners raised: the
\* third was still called and the hit returned True
C19_Witness ==
    /\ call.op = "hit_wall"
    /\ ret = "True"
    /\ call.args[1] \in destroyed_walls
    /\ Len(invoked) = 3
    /\ invoked[2].raised
    /\ ~invoked[3].raised

\* ------------------------------------------------------------------------
\* Circle against segments (src/collision.py), in half units
\* ------------------------------------------------------------------------
\* CollisionSystem(world, player_radius=15.0) with skin_width 0.5
PLAYER_RADIUS == 30
SKIN_WIDTH == 1
\* movement speeds, units per second
WALK_SPEED == 75
RUN_SPEED == 100
\* attempted_dist / 5.0
INTENSITY_FULL_AT == 5

Sgn(a) == IF a > 0 THEN 1 ELSE IF a < 0 THEN -1 ELSE 0

\* a segment of _get_nearby_segments in half units
half_units(seg) == <<2 * seg[1], 2 * seg[2], 2 * seg[3], 2 * seg[4]>>
all_half_units(segs) == [i \in DOMAIN segs |-> half_units(segs[i])]

\* seg_len < 0.001
seg_degenerate(seg) == seg[1] = seg[3] /\ seg[2] = seg[4]

\* the closest point: the projection on the segment's line clamped to the
\* segment, which for the axis-aligned segments of the grid clamps the
\* coordinate along the segment
closest_on_segment(x, z, seg) ==
    <<Max(Min(seg[1], seg[3]), Min(x, Max(seg[1], seg[3]))),
      Max(Min(seg[2], seg[4]), Min(z, Max(seg[2], seg[4])))>>

\* dist < reach, compared on the squares
closer_than(x, z, seg, reach) ==
    LET c == closest_on_segment(x, z, seg)
    IN /\ ~seg_degenerate(seg)
       /\ (x - c[1]) * (x - c[1]) + (z - c[2]) * (z - c[2]) < reach * reach

\* the push that takes a point closer than reach to distance reach: along
\* the vector from the closest point, or along the segment's normal when
\* the point lies on the segment.  exact is FALSE when the vector is
\* oblique, where the program's square root is not a rational number.
push_out(x, z, seg, reach) ==
    LET c == closest_on_segment(x, z, seg)
        diff_x == x - c[1]
        diff_z == z - c[2]
        normal_x == -Sgn(seg[4] - seg[2])
        normal_z == Sgn(seg[3] - seg[1])
        side == (x - seg[1]) * normal_x + (z - seg[2]) * normal_z
        sign == IF side < 0 THEN -1 ELSE 1
    IN IF diff_x = 0 /\ diff_z = 0
       THEN [x |-> sign * normal_x * reach, z |-> sign * normal_z * reach, exact |-> TRUE]
       ELSE IF diff_z = 0
       THEN [x |-> Sgn(diff_x) * (reach - Abs(diff_x)), z |-> 0, exact |-> TRUE]
       ELSE IF diff_x = 0
       THEN [x |-> 0, z |-> Sgn(diff_z) * (reach - Abs(diff_z)), exact |-> TRUE]
       ELSE [x |-> 0, z |-> 0, exact |-> FALSE]

\* CollisionSystem._is_penetrating(x, z) on the segments found
is_penetrating(x, z, segs) ==
    \E i \in DOMAIN segs : closer_than(x, z, segs[i], PLAYER_RADIUS + SKIN_WIDTH)

\* CollisionSystem._depenetrate(x, z): the pushes of all segments closer
\* than the radius, added up
RECURSIVE depenetrate(_, _, _, _)
depenetrate(x, z, segs, i) ==
    IF i > Len(segs) THEN [x |-> x, z |-> z, exact |-> TRUE]
    ELSE LET rest == depenetrate(x, z, segs, i + 1)
         IN IF closer_than(x, z, segs[i], PLAYER_RADIUS)
            THEN LET push == push_out(x, z, segs[i], PLAYER_RADIUS)
                 IN [x |-> rest.x + push.x, z |-> rest.z + push.z,
                     exact |-> rest.exact /\ push.exact]
            ELSE rest

\* the loop over segments of one pass of resolve_collision, each
\* _resolve_segment_collision acting on the position the last one left
RECURSIVE resolve_segments(_, _, _)
resolve_segments(st, segs, i) ==
    IF i > Len(segs) THEN st
    ELSE IF closer_than(st.x, st.z, segs[i], PLAYER_RADIUS + SKIN_WIDTH)
    THEN LET push == push_out(st.x, st.z, segs[i], PLAYER_RADIUS + SKIN_WIDTH)
         IN resolve_segments([x |-> st.x + push.x, z |-> st.z + push.z,
                              resolved |-> TRUE, exact |-> st.exact /\ push.exact],
                             segs, i + 1)
    ELSE resolve_segments(st, segs, i + 1)

\* the scans around (x, z) and around (x0, z0) visit the same cells of the
\* model: _get_nearby_segments then reads the answers the first scan
\* memoized and returns the same list
same_cells(x, z, x0, z0) ==
    \A c \in GridCells :
        cell_in_range(c, x \div 2, z \div 2, PILLAR_SPACING * 2)
            <=> cell_in_range(c, x0 \div 2, z0 \div 2, PILLAR_SPACING * 2)

\* one pass of the loop of resolve_collision at the position of st: the
\* depenetration when stuck, then the loop over the segments
one_pass(st, segs, x0, z0) ==
    LET stuck == is_penetrating(st.x, st.z, segs)
        freed == IF stuck THEN depenetrate(st.x, st.z, segs, 1)
                 ELSE [x |-> st.x, z |-> st.z, exact |-> TRUE]
        pass == resolve_segments([x |-> freed.x, z |-> freed.z, resolved |-> FALSE,
                                  exact |-> freed.exact], segs, 1)
    IN [x |-> pass.x, z |-> pass.z,
        collided |-> st.collided \/ stuck \/ pass.resolved,
        resolved |-> pass.resolved,
        exact |-> /\ st.exact
                  /\ pass.exact
                  /\ same_cells(st.x, st.z, x0, z0)
                  /\ same_cells(freed.x, freed.z, x0, z0)]

\* for iteration in range(3): ... if not resolved: break
RECURSIVE resolve_passes(_, _, _, _, _)
resolve_passes(st, n, segs, x0, z0) ==
    IF n = 0 THEN st
    ELSE LET next == one_pass(st, segs, x0, z0)
         IN IF next.resolved THEN resolve_passes(next, n - 1, segs, x0, z0) ELSE next

\* the passes on the segments the scan around to_pos found
resolve_on(found, to_pos) ==
    LET r == resolve_passes([x |-> to_pos[1], z |-> to_pos[2], collided |-> FALSE,
                             resolved |-> FALSE, exact |-> TRUE],
                            3, all_half_units(found.result), to_pos[1], to_pos[2])
    IN [x |-> r.x, z |-> r.z, collided |-> r.collided, exact |-> r.exact, w |-> found.w]

\* the part of resolve_collision after the early return: the passes at the
\* requested position
resolve_moving(w, to_pos, seed, dpillars) ==
    CHOOSE r \in {resolve_on(found, to_pos) :
                     found \in {nearby_segments(w, GridCellSeq, to_pos[1] \div 2,
                                                to_pos[2] \div 2, seed, dpillars)}} : TRUE

\* CollisionSystem.resolve_collision(from_pos, to_pos); exact is FALSE where
\* the model does not follow the program: an oblique push, or a later scan
\* that would visit other cells than the first
resolve_collision(w, from_pos, to_pos, seed, dpillars) ==
    IF from_pos = to_pos
    THEN [x |-> from_pos[1], z |-> from_pos[2], collided |-> FALSE, exact |-> TRUE, w |-> w]
    ELSE resolve_moving(w, to_pos, seed, dpillars)

\* ------------------------------------------------------------------------
\* Player movement and the collision callback (src/player.py)
\* ------------------------------------------------------------------------
\* the player is followed while x stays at or below this many half units,
\* inside the cell whose walls the model holds
MaxPlayerX == 400

\* a callback on every frame that collides
signals_every_collision(collided, was) == collided

\* if collided and not self.was_colliding and self.collision_callback
signals_new_collision(collided, was) == collided /\ ~was

\* min(1.0, attempted_dist / 5.0) in hundredths, for an attempted distance
\* in half units
collision_intensity(attempted) ==
    Min(100, (100 * attempted) \div (2 * INTENSITY_FULL_AT))

\* the branch of update that moves: resolve_collision returned r
PlayerMoved(move_x, move_z, r) ==
    /\ r.exact
    /\ player_x' = r.x
    /\ player_z' = r.z
    /\ signalled' = IF signals_new_collision(r.collided, was_colliding)
                    THEN <<collision_intensity(Abs(move_x) + Abs(move_z))>>
                    ELSE <<>>
    /\ was_colliding' = r.collided
    /\ resolved' = BoolStr(r.collided)
    /\ contact_signals' =
           IF r.collided
           THEN (IF resolved = "True" THEN contact_signals ELSE 0) + Len(signalled')
           ELSE 0
    /\ Commit(r.w)

\* "Apply movement with collision" of update, for the displacement of the
\* frame; displacements along one axis are followed
PlayerMove(move_x, move_z) ==
    /\ move_x = 0 \/ move_z = 0
    /\ player_x + move_x <= MaxPlayerX
    /\ IF move_x # 0 \/ move_z # 0
       THEN \E r \in {resolve_collision(QueryState, <<player_x, player_z>>,
                                        <<player_x + move_x, player_z + move_z>>,
                                        world_seed, destroyed_pillars)} :
                PlayerMoved(move_x, move_z, r)
       ELSE /\ signalled' = <<>>
            /\ was_colliding' = FALSE
            /\ resolved' = "None"
            /\ contact_signals' = 0
            /\ UNCHANGED <<player_x, player_z, zone_cache, wall_cache, pillar_cache,
                           pre_damaged_walls, destroyed_walls>>

\* speed of the frame in half units: RUN_SPEED * dt or WALK_SPEED * dt
PlayerSpeed(dt, keys) ==
    IF "shift" \in keys THEN (2 * RUN_SPEED * dt) \div 100
    ELSE (2 * WALK_SPEED * dt) \div 100

\* Player.update(dt, keys, mouse_rel, collision_checker) standing on the
\* ground with yaw 0 and the callback set; dt is in hundredths of a second
\* and keys is the set of the keys held
PlayerUpdate(dt, keys) ==
    /\ call' = [op |-> "update", args |-> <<dt, keys>>]
    /\ ret' = "None"
    /\ segments' = <<>>
    /\ emitted' = <<>>
    /\ is_moving' = (keys \cap {"w", "s", "a", "d"} # {})
    /\ is_running' = ("shift" \in keys)
    /\ PlayerMove((IF "d" \in keys THEN PlayerSpeed(dt, keys) ELSE 0)
                      - (IF "a" \in keys THEN PlayerSpeed(dt, keys) ELSE 0),
                  (IF "w" \in keys THEN PlayerSpeed(dt, keys) ELSE 0)
                      - (IF "s" \in keys THEN PlayerSpeed(dt, keys) ELSE 0))
    /\ UNCHANGED <<world_seed, destroyed_pillars, wall_states, wall_health,
                   wall_cracks, debris_pieces, observed, bus_vars, other_vars>>

\* frame times of 0.04 s and 0.1 s
PlayerDts == {4, 10}

\* the keys held in a frame: none, strafing left or right, both at once,
\* walking or running
PlayerKeys == {{}, {"a"}, {"d"}, {"a", "d"}, {"a", "shift"}, {"d", "shift"}}

\* a world whose cell at the player's start has both walls solid and no
\* pillar on the start position
PlayerSeeds == {0}

PlayerUpdateStep == \E dt \in PlayerDts, keys \in PlayerKeys : PlayerUpdate(dt, keys)

NextPlayer == PlayerUpdateStep

InitPlayer == Constructed(PlayerSeeds)

SpecPlayer == InitPlayer /\ [][NextPlayer]_vars

\* the displacement a frame attempts, in half units, from its dt and keys
AttemptedOf(c) ==
    LET speed == IF "shift" \in c.args[2] THEN 2 * c.args[1] ELSE (3 * c.args[1]) \div 2
        n == Cardinality(c.args[2] \cap {"a"}) - Cardinality(c.args[2] \cap {"d"})
    IN Abs(n) * speed

\* C20: the collision callback is invoked only in a frame whose
\* resolve_collision reports a collision while the frame before did not
\* end in a collision; in a run of consecutive moving frames that all
\* collide it is invoked at most once; and the intensity it is passed is
\* min(1, attempted distance / 5), a number between 0 and 1.
C20_CallbackOnlyOnNewCollision ==
    [][call'.op = "update" =>
          /\ signalled' # <<>> => (resolved' = "True" /\ resolved # "True")
          /\ contact_signals' <= 1
          /\ \A i \in DOMAIN signalled' :
                 /\ signalled'[i] >= 0
                 /\ signalled'[i] <= 100
                 /\ signalled'[i] = Min(100, 10 * AttemptedOf(call'))]_vars

\* the second frame of a contact: the player walked into the wall, the
\* callback was invoked with intensity 0.6 in the frame before, and this
\* frame collided again without invoking it
C20_Witness ==
    /\ call.op = "update"
    /\ resolved = "True"
    /\ was_colliding
    /\ signalled = <<>>
    /\ contact_signals = 1
    /\ player_x = 2 * 10 + PLAYER_RADIUS + SKIN_WIDTH

\* ------------------------------------------------------------------------
\* The collision queries called with any pair of floats
\* ------------------------------------------------------------------------
\* a Python float as a pair: a finite value, nan, or an infinity of either
\* sign
Finite(n) == <<"finite", n>>
NaN == <<"nan", 0>>
Inf(sign) == <<"inf", sign>>

\* the number a finite float holds
value_of(f) == f[2]

\* math.isfinite(f)
isfinite(f) == f[1] = "finite"

\* move_dist < 0.001 for positions on the half-unit grid: a difference that
\* involves nan or an infinity gives a move_dist of nan or inf, for which
\* the comparison is False
no_movement(from_pos, to_pos) ==
    /\ \A i \in 1..2 : isfinite(from_pos[i]) /\ isfinite(to_pos[i])
    /\ from_pos = to_pos

\* int((x - check_range) // PILLAR_SPACING) of _get_nearby_segments raises
\* ValueError for nan and for an infinity (whose floor division is nan)
scan_raises(pos) == IF isfinite(pos[1]) /\ isfinite(pos[2]) THEN "None" ELSE "ValueError"

\* CollisionSystem.resolve_collision(from_pos, to_pos) for positions of
\* floats, in half units: what it raises and, when it returns, the result
resolve_collision_floats(w, from_pos, to_pos, seed, dpillars) ==
    IF no_movement(from_pos, to_pos)
    THEN [raised |-> "None",
          r |-> [x |-> value_of(from_pos[1]), z |-> value_of(from_pos[2]), collided |-> FALSE,
                 exact |-> TRUE, w |-> w]]
    ELSE IF scan_raises(to_pos) # "None"
    THEN [raised |-> scan_raises(to_pos),
          r |-> [x |-> 0, z |-> 0, collided |-> FALSE, exact |-> TRUE, w |-> w]]
    ELSE [raised |-> "None",
          r |-> resolve_moving(w, <<value_of(to_pos[1]), value_of(to_pos[2])>>, seed, dpillars)]

\* a call of resolve_collision whose outcome is c
ResolveCollisionReturns(from_pos, to_pos, c) ==
    /\ c.r.exact
    /\ call' = [op |-> "resolve_collision", args |-> <<from_pos, to_pos>>]
    /\ ret' = IF c.raised # "None" THEN c.raised ELSE BoolStr(c.r.collided)
    /\ returned_pos' = IF c.raised # "None" THEN <<>> ELSE <<c.r.x, c.r.z>>
    /\ segments' = <<>>
    /\ emitted' = <<>>
    /\ Commit(c.r.w)
    /\ UNCHANGED <<world_seed, destroyed_pillars, wall_states, wall_health,
                   wall_cracks, debris_pieces, observed, bus_vars, player_vars,
                   particle_vars, render_vars, notify_vars>>

ResolveCollision(from_pos, to_pos) ==
    \E c \in {resolve_collision_floats(QueryState, from_pos, to_pos, world_seed,
                                       destroyed_pillars)} :
        ResolveCollisionReturns(from_pos, to_pos, c)

\* World.check_collision(x, z) with a coordinate that is not finite: the
\* early return of the isfinite guard, before anything is read
CheckCollisionNonFinite(x, z) ==
    /\ ~isfinite(x) \/ ~isfinite(z)
    /\ call' = [op |-> "check_collision", args |-> <<x, z>>]
    /\ ret' = "True"
    /\ segments' = <<>>
    /\ Commit(QueryState)
    /\ QueryFrame

\* positions of the resolve_collision calls, in half units, at x = 200 where
\* only the horizontal wall of the cell is within reach: z = -25.5, -12,
\* -5.5, 0 (the centerline), 5, 10 (on the face), 12, 21.5, 25.5, 30 and 50
WallApproachZs == {-51, -24, -11, 0, 10, 20, 24, 43, 51, 60, 100}

\* and at z = 200 beside the vertical wall: x = 12 and x = 30
ResolvePositions ==
    {<<Finite(400), Finite(z)>> : z \in WallApproachZs}
        \cup {<<Finite(24), Finite(400)>>, <<Finite(60), Finite(400)>>}

\* poses with a coordinate that is not finite
InvalidPositions == {<<NaN, Finite(24)>>, <<Finite(400), Inf(1)>>, <<Inf(-1), NaN>>}

\* a world whose cell has both walls, without doorway, and no pillar
CollisionSeeds == {0}

\* the start positions: free ones on either side of the horizontal wall and
\* beside the vertical wall, an invalid one, and the requested position
\* itself (no movement)
StartPositions(to_pos) ==
    {<<Finite(400), Finite(100)>>, <<Finite(400), Finite(-100)>>,
     <<Finite(200), Finite(400)>>, <<NaN, Finite(24)>>, to_pos}

ResolveCollisionStep ==
    \E to_pos \in ResolvePositions \cup InvalidPositions :
        \E from_pos \in StartPositions(to_pos) : ResolveCollision(from_pos, to_pos)
CheckCollisionNonFiniteStep ==
    \E p \in InvalidPositions : CheckCollisionNonFinite(p[1], p[2])

NextCollision ==
    \/ ResolveCollisionStep
    \/ CheckCollisionNonFiniteStep
    \/ DestroyWallStep

InitCollision == Constructed(CollisionSeeds)

SpecCollision == InitCollision /\ [][NextCollision]_vars

\* the segments of the walls and pillars that the world has answered for
\* and that are not destroyed
SolidSegments ==
    UNION {(IF Get(wall_cache, HorizontalKey(c), FALSE) /\ HorizontalKey(c) \notin destroyed_walls
            THEN SeqRange(wall_segments(c, TRUE, world_seed)) ELSE {})
           \cup (IF Get(wall_cache, VerticalKey(c), FALSE) /\ VerticalKey(c) \notin destroyed_walls
                 THEN SeqRange(wall_segments(c, FALSE, world_seed)) ELSE {})
           \cup (IF Get(pillar_cache, PillarKeyOf(c), FALSE) /\ PillarKeyOf(c) \notin destroyed_pillars
                 THEN SeqRange(pillar_segments(c)) ELSE {}) : c \in GridCells}

\* C21: the position resolve_collision returns is at least the player
\* radius, less the skin width as tolerance, away from every segment of a
\* wall or pillar in range that is not destroyed.
C21_ResolvedPositionIsClear ==
    (call.op = "resolve_collision" /\ returned_pos # <<>>) =>
        \A seg \in SolidSegments :
            ~closer_than(returned_pos[1], returned_pos[2], half_units(seg),
                         PLAYER_RADIUS - SKIN_WIDTH)

\* the coordinates of a position of finite floats
values_of(pos) == <<value_of(pos[1]), value_of(pos[2])>>

\* the coordinate of p along a horizontal or vertical wall, and across it
Along(p, horizontal) == IF horizontal THEN p[1] ELSE p[2]
Across(p, horizontal) == IF horizontal THEN p[2] ELSE p[1]

\* the last call moved the circle straight at the horizontal (vertical) wall
\* of the cell at the origin, whose centerline is the axis: the wall stands,
\* has no doorway, the move is along its normal, within its span, toward
\* the centerline, and the circle at the requested position reaches the wall
StraightAtWall(horizontal) ==
    LET c == <<0, 0>>
        key == IF horizontal THEN HorizontalKey(c) ELSE VerticalKey(c)
    IN /\ call.op = "resolve_collision"
       /\ \A i \in 1..2 : \A j \in 1..2 : isfinite(call.args[i][j])
       /\ Get(wall_cache, key, FALSE)
       /\ key \notin destroyed_walls
       /\ Len(wall_segments(c, horizontal, world_seed)) = 2
       /\ LET f == values_of(call.args[1])
              t == values_of(call.args[2])
          IN /\ Along(f, horizontal) = Along(t, horizontal)
             /\ 0 <= Along(t, horizontal) /\ Along(t, horizontal) <= 2 * PILLAR_SPACING
             /\ Abs(Across(t, horizontal)) < Abs(Across(f, horizontal))
             /\ Abs(Across(t, horizontal)) < WALL_THICKNESS + PLAYER_RADIUS + SKIN_WIDTH

\* C22 as stated: a circle of radius 15 moved straight into a wall without
\* doorway is returned with collided = True at a perpendicular distance of
\* radius + skin width from the wall centerline.
C22_StopsAtRadiusFromCenterline ==
    \A horizontal \in BOOLEAN :
        StraightAtWall(horizontal) =>
            /\ ret = "True"
            /\ Abs(Across(returned_pos, horizontal)) = PLAYER_RADIUS + SKIN_WIDTH

\* C22 amended: when the centre of the requested position lies outside the
\* two faces of the wall, resolve_collision returns collided = True and a
\* position on the side of the requested one at radius + skin width from
\* the nearer face, which is half the wall thickness + radius + skin width
\* from the centerline, with the coordinate along the wall unchanged
\* (WALL_THICKNESS / 2 units are WALL_THICKNESS half units).
C22_StopsAtRadiusFromFace ==
    \A horizontal \in BOOLEAN :
        (StraightAtWall(horizontal)
            /\ Abs(Across(values_of(call.args[2]), horizontal)) > WALL_THICKNESS) =>
            /\ ret = "True"
            /\ Across(returned_pos, horizontal) =
                   Sgn(Across(values_of(call.args[2]), horizontal))
                       * (WALL_THICKNESS + PLAYER_RADIUS + SKIN_WIDTH)
            /\ Along(returned_pos, horizontal) = Along(values_of(call.args[2]), horizontal)

\* the circle was moved from z = 50 to z = 12 at x = 200, 2 from the face of
\* the horizontal wall, and was returned at z = 25.5
C22_Witness ==
    /\ StraightAtWall(TRUE)
    /\ call.args[2] = <<Finite(400), Finite(24)>>
    /\ ret = "True"
    /\ returned_pos = <<400, 51>>

\* the last call was a collision query handed a position with a coordinate
\* that is not finite
QueriedInvalidPose ==
    \/ /\ call.op = "check_collision"
       /\ \E i \in 1..2 : ~isfinite(call.args[i])
    \/ /\ call.op = "resolve_collision"
       /\ \E i \in 1..2 : \E j \in 1..2 : ~isfinite(call.args[i][j])

\* C23: check_collision and resolve_collision handed a position with a
\* coordinate that is not finite report a collision: they do not report the
\* position as free and do not raise.
C23_InvalidPoseIsColliding ==
    QueriedInvalidPose => ret = "True"


\* ------------------------------------------------------------------------
\* The debris list particle by particle
\*
\* Times are in ticks of 1/8 s, velocities in 1/10000 unit per second and
\* positions in 1/80000 unit, so that position += velocity * dt is exact.
\* The products by 0.1 and 0.6 of a bounce are rounded to the nearest
\* velocity unit; a comparison of Debris.update whose two sides are closer
\* than the rounding can account for makes the particle inexact, and calls
\* on inexact particles are not followed.
\* ------------------------------------------------------------------------
\* self.vy -= 40 * dt, per tick
GRAVITY == 50000

\* speed < 0.5
SETTLE_SPEED == 5000

\* abs(self.cy - floor_y) < 0.5
SETTLE_HEIGHT == 40000

\* self.settle_timer > 0.3: more than two ticks
SETTLE_TIME == 2

\* position units in a world unit
POSITION_SCALE == 80000

\* DEBRIS_CULL_DIST of World.update_debris, in world units
DEBRIS_CULL_DIST == 900

\* rounding slack of a velocity, of a position and of a squared distance
VelocitySlack == 4
PositionSlack == 400
CullSlack == 8000

\* get_scaled_floor_y() in position units
FloorY == get_scaled_floor_y * POSITION_SCALE

\* v * 0.6 and v * 0.1, to the nearest velocity unit
Times(v, tenths) ==
    IF v >= 0 THEN (v * tenths + 5) \div 10 ELSE -((-v * tenths + 5) \div 10)

\* velocity=None of Debris.__init__
NoVelocity == <<>>

\* Debris.__init__ without the is_settled flag of velocity=None: every
\* particle starts unsettled
DebrisUnsettled(id, position, velocity, max_age, max_settled_age) ==
    [id |-> id,
     cx |-> position[1], cy |-> position[2], cz |-> position[3],
     vx |-> IF velocity = NoVelocity THEN 0 ELSE velocity[1],
     vy |-> IF velocity = NoVelocity THEN 0 ELSE velocity[2],
     vz |-> IF velocity = NoVelocity THEN 0 ELSE velocity[3],
     is_settled |-> FALSE,
     settle_timer |-> 0, active |-> TRUE, age |-> 0, settled_age |-> 0,
     max_age |-> max_age, max_settled_age |-> max_settled_age,
     exact |-> TRUE]

\* Debris.__init__; max_age and max_settled_age are its two random draws, a
\* draw of k standing for a value strictly between k and k + 1 ticks
Debris(id, position, velocity, max_age, max_settled_age) ==
    [id |-> id,
     cx |-> position[1], cy |-> position[2], cz |-> position[3],
     vx |-> IF velocity = NoVelocity THEN 0 ELSE velocity[1],
     vy |-> IF velocity = NoVelocity THEN 0 ELSE velocity[2],
     vz |-> IF velocity = NoVelocity THEN 0 ELSE velocity[3],
     is_settled |-> velocity = NoVelocity,
     settle_timer |-> 0, active |-> TRUE, age |-> 0, settled_age |-> 0,
     max_age |-> max_age, max_settled_age |-> max_settled_age,
     exact |-> TRUE]

\* speed < 0.5 and abs(cy - floor_y) < 0.5 for a particle on its way
slow_and_low(vx, vy, vz, cy, floor_y) ==
    /\ Abs(vx) < SETTLE_SPEED /\ Abs(vy) < SETTLE_SPEED /\ Abs(vz) < SETTLE_SPEED
    /\ vx * vx + vy * vy + vz * vz < SETTLE_SPEED * SETTLE_SPEED
    /\ Abs(cy - floor_y) < SETTLE_HEIGHT

\* whether the roundings leave the comparisons of the settling block decided
decided(vx, vy, vz, cy, floor_y) ==
    /\ Abs(Abs(cy - floor_y) - SETTLE_HEIGHT) > PositionSlack
    /\ \A v \in {vx, vy, vz} : Abs(Abs(v) - SETTLE_SPEED) > VelocitySlack
    /\ \/ \E v \in {vx, vy, vz} : Abs(v) >= SETTLE_SPEED
       \/ Abs(vx * vx + vy * vy + vz * vz - SETTLE_SPEED * SETTLE_SPEED)
              > 6 * VelocitySlack * SETTLE_SPEED

\* the settling block of Debris.update for a particle that has moved
settle(d, dt, floor_y) ==
    IF ~slow_and_low(d.vx, d.vy, d.vz, d.cy, floor_y) THEN d
    ELSE IF d.settle_timer + dt > SETTLE_TIME
         THEN [d EXCEPT !.settle_timer = @ + dt, !.is_settled = TRUE,
                        !.vx = 0, !.vy = 0, !.vz = 0, !.cy = floor_y,
                        !.settled_age = 0]
         ELSE [d EXCEPT !.settle_timer = @ + dt]

\* the physics of Debris.update: gravity, the move and the floor collision
move(d, dt, floor_y) ==
    LET vy == d.vy - GRAVITY * dt
        cy == d.cy + vy * dt
        hit == cy <= floor_y
    IN [d EXCEPT !.cx = @ + d.vx * dt,
                 !.cy = IF hit THEN floor_y ELSE cy,
                 !.cz = @ + d.vz * dt,
                 !.vx = IF hit THEN Times(@, 6) ELSE @,
                 !.vy = IF hit THEN Times(-vy, 1) ELSE vy,
                 !.vz = IF hit THEN Times(@, 6) ELSE @,
                 !.exact = @ /\ Abs(cy - floor_y) > PositionSlack]

\* the physics and the settling block of Debris.update
fly(d, dt, floor_y) ==
    CHOOSE r \in {settle(m, dt, floor_y) :
                      m \in {[n EXCEPT !.exact = @ /\ decided(n.vx, n.vy, n.vz, n.cy, floor_y)] :
                                 n \in {move(d, dt, floor_y)}}} : TRUE

\* Debris.update returning at once for a settled particle, which then
\* neither ages nor expires
debris_update_resting(d, dt, floor_y) ==
    IF ~d.active \/ d.is_settled THEN d
    ELSE IF d.age + dt > d.max_age
    THEN [d EXCEPT !.age = @ + dt, !.active = FALSE]
    ELSE fly([d EXCEPT !.age = @ + dt], dt, floor_y)

\* Debris.update
debris_update(d, dt, floor_y) ==
    IF ~d.active THEN d
    ELSE IF d.age + dt > d.max_age
    THEN [d EXCEPT !.age = @ + dt, !.active = FALSE]
    ELSE IF d.is_settled
    THEN [d EXCEPT !.age = @ + dt, !.settled_age = @ + dt,
                   !.active = d.settled_age + dt <= d.max_settled_age]
    ELSE fly([d EXCEPT !.age = @ + dt], dt, floor_y)


\* (dx * dx + dz * dz) > DEBRIS_CULL_DIST * DEBRIS_CULL_DIST, in world units
squared_distance(d, player) ==
    LET dx == (d.cx - player[1] * POSITION_SCALE) \div POSITION_SCALE
        dz == (d.cz - player[2] * POSITION_SCALE) \div POSITION_SCALE
    IN dx * dx + dz * dz

\* the distance culling of World.update_debris for the updated particle u
cull(u, far) ==
    IF ~u.active THEN u
    ELSE [u EXCEPT !.active = far <= DEBRIS_CULL_DIST * DEBRIS_CULL_DIST,
                   !.exact = @ /\ Abs(far - DEBRIS_CULL_DIST * DEBRIS_CULL_DIST)
                                      > CullSlack]

\* the body of the loop of World.update_debris for the particle d
update_and_cull(d, dt, player) ==
    CHOOSE r \in {cull(u, squared_distance(u, player)) :
                      u \in {debris_update(d, dt, FloorY)}} : TRUE

\* self.debris_pieces[-MAX_DEBRIS:]
newest(pieces, n) == SubSeq(pieces, Max(1, Len(pieces) - n + 1), Len(pieces))

\* World.update_debris(dt, player_x, player_z) on the list of particles
UpdateParticles(dt, player) ==
    \E updated \in {[i \in DOMAIN particles |-> update_and_cull(particles[i], dt, player)]} :
       /\ \A i \in DOMAIN updated : updated[i].exact
       /\ call' = [op |-> "update_debris", args |-> <<dt, player>>]
       /\ ret' = "None"
       /\ segments' = <<>>
       /\ emitted' = <<>>
       /\ particles' = newest(SelectSeq(updated, LAMBDA d : d.active), MAX_DEBRIS)
       /\ UNCHANGED <<spawned, collision_vars, render_vars, notify_vars, world_vars,
                      observed, bus_vars, player_vars>>

\* self.debris_pieces.append(Debris(position, color, velocity)) of the spawn
\* loops of World
SpawnParticle(position, velocity, max_age, max_settled_age) ==
    /\ call' = [op |-> "Debris", args |-> <<position, velocity>>]
    /\ ret' = "None"
    /\ segments' = <<>>
    /\ emitted' = <<>>
    /\ spawned' = spawned + 1
    /\ particles' = Append(particles, Debris(spawned + 1, position, velocity,
                                             max_age, max_settled_age))
    /\ UNCHANGED <<collision_vars, render_vars, notify_vars, world_vars, observed,
                   bus_vars, player_vars>>

\* Debris objects constructed in a behaviour
MaxParticles == 2

\* dt of a frame, in ticks
ParticleDts == {1, 2}

\* the player's position handed to update_debris, in world units
PlayerSpots == {<<200, 0>>, <<2000, 0>>}

\* random.uniform(8.0, 18.0) and random.uniform(2.0, 6.0), in ticks
MaxAges == {70}
MaxSettledAges == {16}

\* a particle of a rubble pile, and a particle of a destroyed wall that
\* starts two units above the floor and falls straight down
Throws ==
    {<<<<200 * POSITION_SCALE, FloorY, 0>>, NoVelocity>>,
     <<<<200 * POSITION_SCALE, FloorY + 2 * POSITION_SCALE, 0>>, <<0, -50000, 0>>>>}

\* the particles of a frame are appended before the frame's update_debris
SpawnParticleStep ==
    /\ spawned < MaxParticles
    /\ \A i \in DOMAIN particles : particles[i].age = 0
    /\ \E t \in Throws : \E max_age \in MaxAges : \E max_settled_age \in MaxSettledAges :
           SpawnParticle(t[1], t[2], max_age, max_settled_age)

UpdateParticlesStep ==
    \E dt \in ParticleDts : \E player \in PlayerSpots : UpdateParticles(dt, player)

NextParticles == SpawnParticleStep \/ UpdateParticlesStep

InitParticles == Constructed({0})

SpecParticles == InitParticles /\ [][NextParticles]_vars

\* a particle that has been settled since its construction
SettledFromCreation(d) == d.is_settled /\ d.settle_timer = 0

\* the particle of particles' that has the id of d, in a set
Later(d) == {particles'[j] : j \in {k \in DOMAIN particles' : particles'[k].id = d.id}}

SpecParticlesLive ==
    InitParticles /\ [][NextParticles]_vars /\ WF_vars(UpdateParticlesStep)

\* the Debris object numbered id is in World.debris_pieces
Listed(id) == \E i \in DOMAIN particles : particles[i].id = id

\* C30: under repeated update_debris calls the particles of the debris list,
\* settled or not, are eventually all deactivated and removed from the list;
\* the list never holds an inactive particle, and a particle that has been
\* removed is never in the list again.
C30_EveryParticleGoes ==
    /\ (particles # <<>>) ~> (particles = <<>>)
    /\ [](\A i \in DOMAIN particles : particles[i].active)
    /\ [][\A id \in 1..spawned : ~Listed(id) => ~(Listed(id))']_vars

\* the list emptied by an update_debris call that had the player next to the
\* particles, so that age and not distance took the last of them
C30_Witness ==
    /\ call.op = "update_debris"
    /\ call.args[2] = <<200, 0>>
    /\ spawned = MaxParticles
    /\ particles = <<>>


\* ------------------------------------------------------------------------
\* The render pass over the walls
\* ------------------------------------------------------------------------
RENDER_DISTANCE == 2000

\* particles of a rubble pile (range(80) of World.spawn_rubble_pile)
RUBBLE_PARTICLES == 80

\* the two conditions of Renderer._get_walls for the wall of cell c: the
\* world after has_wall_between, and whether a draw function is queued
queue_wall(w, c, horizontal, seed) ==
    LET q == IF horizontal
             THEN has_wall_between(w, c[1], c[2], c[1] + PILLAR_SPACING, c[2], seed)
             ELSE has_wall_between(w, c[1], c[2], c[1], c[2] + PILLAR_SPACING, seed)
        key == IF horizontal THEN HorizontalKey(c) ELSE VerticalKey(c)
    IN [w |-> q.w,
        queued |-> IF q.result /\ key \notin q.w.destroyed_walls THEN {key} ELSE {}]

\* Renderer._get_walls: the world after the queries and the keys of the walls
\* that got a draw function
RECURSIVE get_walls(_, _, _, _, _)
get_walls(w, cells, camera, seed, i) ==
    IF i > Len(cells) THEN [w |-> w, queued |-> {}]
    ELSE IF ~cell_in_range(cells[i], camera[1], camera[2], RENDER_DISTANCE)
    THEN get_walls(w, cells, camera, seed, i + 1)
    ELSE LET h == queue_wall(w, cells[i], TRUE, seed)
             v == queue_wall(h.w, cells[i], FALSE, seed)
             rest == get_walls(v.w, cells, camera, seed, i + 1)
         IN [w |-> rest.w, queued |-> h.queued \cup v.queued \cup rest.queued]

\* Renderer._draw_connecting_wall up to its choice between the rubble pile
\* and the solid geometry
draws_rubble(wall_key, destroyed, states, pre_damaged) ==
    \/ wall_key \in destroyed
    \/ Get(states, wall_key, "INTACT") = "DESTROYED"
    \/ Get(pre_damaged, wall_key, 10000) < DECAY_DESTROYED_BELOW

\* Renderer.render for the walls: the queue is built, then every draw
\* function of the queue is called; spawn_rubble_pile appends its particles
\* for a key it has not seen
RenderWalls(camera) ==
    \E q \in {get_walls(QueryState, GridCellSeq, camera, world_seed, 1)} :
    \E rubble \in {{k \in q.queued : draws_rubble(k, q.w.destroyed_walls, wall_states,
                                                  q.w.pre_damaged_walls)}} :
        /\ call' = [op |-> "render", args |-> <<camera>>]
        /\ ret' = "None"
        /\ segments' = <<>>
        /\ emitted' = <<>>
        /\ Commit(q.w)
        /\ spawned_rubble' = spawned_rubble \cup rubble
        /\ drawn' = q.queued \ rubble
        /\ debris_pieces' = debris_pieces \o
               [i \in 1..Cardinality(rubble \ spawned_rubble) |-> RUBBLE_PARTICLES]
        /\ UNCHANGED <<world_seed, destroyed_pillars, wall_states, wall_health,
                       wall_cracks, observed, bus_vars, player_vars, collision_vars,
                       particle_vars, notify_vars>>

\* camera positions: next to the walls of the grid cell, and out of range
Cameras == {<<200, 200>>, <<100000, 200>>}

\* data handed to load_state between render passes: a save file without a
\* world entry, and the snapshots of worlds that lost one wall
RenderLoads ==
    {EmptyDict} \cup
    UNION {SnapshotsOf(seed, {HorizontalKey(c)}) : seed \in SaveSeeds, c \in GridCells}

RenderWallsStep == \E camera \in Cameras : RenderWalls(camera)
RenderLoadStep == \E data \in RenderLoads : load_state(data)

\* a wall is destroyed once in a behaviour
DestroyOnceStep ==
    \E k \in WallKeys : Get(wall_states, k, "INTACT") # "DESTROYED" /\ destroy_wall(k)

NextRender ==
    \/ RenderWallsStep
    \/ DestroyOnceStep
    \/ UpdateDebrisStep
    \/ RenderLoadStep

InitRender == Constructed(SaveSeeds)

SpecRender == InitRender /\ [][NextRender]_vars

\* the last render pass had the walls of the grid cell in range
InRenderRange(camera) ==
    \A c \in GridCells : cell_in_range(c, camera[1], camera[2], RENDER_DISTANCE)

\* C25: a wall whose current state is Destroyed is, on a render pass that has
\* it in range, not drawn as solid geometry but replaced by a rubble pile:
\* spawn_rubble_pile has its key after the pass, and the pass appends one
\* pile of particles for every key that is new to it and none for the others.
C25_DestroyedWallBecomesRubbleOnce ==
    [][(call'.op = "render" /\ InRenderRange(call'.args[1])) =>
           LET destroyed == {k \in WallKeys : get_wall_state(k) = "DESTROYED"}
           IN /\ drawn' \cap destroyed = {}
              /\ destroyed \subseteq spawned_rubble'
              /\ \E piles \in SUBSET WallKeys :
                     /\ (destroyed \ spawned_rubble) \subseteq piles
                     /\ piles \cap spawned_rubble = {}
                     /\ debris_pieces' = debris_pieces \o
                            [i \in 1..Cardinality(piles) |-> RUBBLE_PARTICLES]]_vars


\* ------------------------------------------------------------------------
\* The memoization caches under loads that change the seed
\* ------------------------------------------------------------------------
\* the world is constructed with seed 41 and loads snapshots of seed 6, under
\* which zone (0, 0) has another archetype and another grid
CacheSeeds == {41}
LoadedSeeds == {6, 41}

\* data handed to load_state: a save file without a world entry, and the
\* snapshots of worlds of either seed with no wall or one wall destroyed
CacheLoads ==
    {EmptyDict} \cup
    UNION {SnapshotsOf(seed, destroyed) :
               seed \in LoadedSeeds, destroyed \in {{}} \cup {{k} : k \in WallKeys}}

CacheLoadStep == \E data \in CacheLoads : load_state(data)

NextCache ==
    \/ QueryWallStep
    \/ HasPillarAtStep
    \/ GetZonePropertiesStep
    \/ EmitHitStep
    \/ DestroyOnceStep
    \/ UpdateDebrisStep
    \/ CacheLoadStep

InitCache == Constructed(CacheSeeds)

SpecCache == InitCache /\ [][NextCache]_vars

\* C26: every entry of the zone, wall and pillar caches is what a freshly
\* constructed world of the current seed computes for its key, and a
\* load_state call leaves the three caches empty.
C26_CachesAgreeWithSeed ==
    /\ \A zone \in DOMAIN zone_cache :
           zone_cache[zone] = get_zone_type(zone[1], zone[2], world_seed)
    /\ \A key \in DOMAIN wall_cache :
           wall_cache[key] = has_wall_between(FreshQuery, key[1][1], key[1][2],
                                              key[2][1], key[2][2], world_seed).result
    /\ \A key \in DOMAIN pillar_cache :
           pillar_cache[key] = has_pillar_at(FreshQuery, key[1], key[2], world_seed).result
    /\ call.op = "load_state" =>
           zone_cache = EmptyDict /\ wall_cache = EmptyDict /\ pillar_cache = EmptyDict

\* the three caches filled again under seed 6, which only a load gives
C26_Witness ==
    /\ world_seed = 6
    /\ zone_cache # EmptyDict
    /\ pillar_cache # EmptyDict
    /\ \E key \in DOMAIN wall_cache : ~wall_cache[key]


\* ------------------------------------------------------------------------
\* The two argument orders of a wall query
\* ------------------------------------------------------------------------
\* C27: has_wall_between(x1, z1, x2, z2) returns what the call with the two
\* points exchanged would have returned in the same world, and leaves the
\* pre-existing-damage record and the destroyed set as that call would have
\* left them.
C27_WallQueryIgnoresPointOrder ==
    [][call'.op = "has_wall_between" =>
           LET a == call'.args
               exchanged == has_wall_between(QueryState, a[3], a[4], a[1], a[2], world_seed)
           IN /\ ret' = BoolStr(exchanged.result)
              /\ pre_damaged_walls' = exchanged.w.pre_damaged_walls
              /\ destroyed_walls' = exchanged.w.destroyed_walls]_vars


\* ------------------------------------------------------------------------
\* check_collision before and after a destruction
\* ------------------------------------------------------------------------
\* the memoized part of the world after the step
QueryStateAfter ==
    [zone_cache |-> zone_cache', wall_cache |-> wall_cache',
     pillar_cache |-> pillar_cache', pre_damaged_walls |-> pre_damaged_walls',
     destroyed_walls |-> destroyed_walls']

\* the walls and the pillar of the grid cells that stand in the world w and
\* reach the position (x, z), by the tests of check_collision
Blockers(w, x, z, seed, dpillars) ==
    UNION {
        LET h == has_wall_between(w, c[1], c[2], c[1] + PILLAR_SPACING, c[2], seed)
            v == has_wall_between(w, c[1], c[2], c[1], c[2] + PILLAR_SPACING, seed)
            p == has_pillar_at(w, PillarKeyOf(c)[1], PillarKeyOf(c)[2], seed)
        IN (IF /\ h.result /\ HorizontalKey(c) \notin h.w.destroyed_walls
               /\ wall_blocks(c, TRUE, x, z, seed)
            THEN {HorizontalKey(c)} ELSE {})
           \cup
           (IF /\ v.result /\ VerticalKey(c) \notin v.w.destroyed_walls
               /\ wall_blocks(c, FALSE, x, z, seed)
            THEN {VerticalKey(c)} ELSE {})
           \cup
           (IF p.result /\ PillarKeyOf(c) \notin dpillars /\ pillar_blocks(c, x, z)
            THEN {PillarKeyOf(c)} ELSE {})
        : c \in GridCells}

\* positions next to the walls of the grid cell, beside their openings
ProbePositions == {<<200, 12>>, <<30, 12>>, <<12, 200>>, <<12, 30>>, <<210, 210>>}

\* C28: destroying a wall removes only that wall from check_collision: after
\* destroy_wall(k), check_collision reports a position as blocked exactly
\* when a wall other than k or a pillar that stood and blocked it before the
\* call is there.
C28_DestructionRemovesOnlyThatWall ==
    [][call'.op = "destroy_wall" =>
           \A pos \in ProbePositions :
               (check_collision(QueryStateAfter, pos[1], pos[2], world_seed,
                                destroyed_pillars').result = "True")
               <=> (Blockers(QueryState, pos[1], pos[2], world_seed, destroyed_pillars)
                        \ {call'.args[1]} # {})]_vars


\* ------------------------------------------------------------------------
\* What the damage listeners read back from the world
\* ------------------------------------------------------------------------
\* the subscriptions Engine._setup_event_listeners makes
NotifySubscriptions ==
    {<<"WALL_DESTROYED", "listener">>, <<"WALL_CRACKED", "listener">>,
     <<"WALL_FRACTURED", "listener">>, <<"PILLAR_DESTROYED", "listener">>}

\* damage of the hits: 0.25 (the default), 0.4 and 1.0
NotifyDamages == {5, 8, 20}

NotifySubscribeStep == \E sub \in NotifySubscriptions : Subscribe(sub[1], sub[2])
NotifyHitStep == \E k \in WallKeys, d \in NotifyDamages : hit_wall(k, d)

NextNotify ==
    \/ NotifySubscribeStep
    \/ NotifyHitStep
    \/ DestroyWallStep
    \/ DestroyPillarStep
    \/ UpdateDebrisStep

InitNotify == Constructed({0})

SpecNotify == InitNotify /\ [][NextNotify]_vars

\* the state a damage event announces
AnnouncedState(type) ==
    IF type = "WALL_CRACKED" THEN "CRACKED"
    ELSE IF type = "WALL_FRACTURED" THEN "FRACTURED"
    ELSE "DESTROYED"

\* C29: a handler of WALL_DESTROYED or PILLAR_DESTROYED finds the key of its
\* event already reported as destroyed by the world, and a handler of
\* WALL_CRACKED or WALL_FRACTURED finds get_wall_state and get_wall_health of
\* the key already returning the state the event announces and the health it
\* carries: the world writes before it notifies
C29_WrittenBeforeNotified ==
    \A i \in DOMAIN seen :
        /\ seen[i].event.type \in {"WALL_DESTROYED", "PILLAR_DESTROYED"}
               => seen[i].destroyed
        /\ seen[i].event.type \in {"WALL_CRACKED", "WALL_FRACTURED"}
               => /\ seen[i].state = AnnouncedState(seen[i].event.type)
                  /\ seen[i].health = seen[i].event.health

\* the handler of WALL_FRACTURED has just run on a wall brought down to a
\* quarter of its health, in a world that has lost a wall and a pillar
C29_Witness ==
    /\ call.op = "hit_wall"
    /\ seen # <<>>
    /\ seen[1].event.type = "WALL_FRACTURED"
    /\ seen[1].event.health = 5
    /\ seen[1].handlers >= 1
    /\ \E i \in DOMAIN invoked : invoked[i].type = "WALL_FRACTURED"
    /\ destroyed_walls # {}
    /\ destroyed_pillars # {}

====
